---- MODULE Spec2Model ----
(***************************************************************************)
(* Model of the client-side services of the safety-monitoring dashboard.   *)
(* Each service has its own variables and its own specification:           *)
(*   Spec           EnterpriseBackendService: request() with its cache,    *)
(*                  retry loop and circuit breaker, and the API wrappers   *)
(*                  that go through it;                                    *)
(*   RealtimeSpec   the websocket of EnterpriseBackendService and its      *)
(*                  reconnection timers;                                   *)
(*   CameraSpec     ProductionCameraService: discovery, connection and     *)
(*                  teardown of the devices' streams (permissionStatus and *)
(*                  errorHandlers, which no modelled branch reads, are     *)
(*                  left out);                                             *)
(*   LadderSpec     the resolutions derived from a capability envelope;    *)
(*   DetectionSpec  RealTimeDetectionService: the timer of startDetection  *)
(*                  and the awaits of processFrame (lastDetectionTime,     *)
(*                  detectionQueue and the canvas, which no branch reads,  *)
(*                  are left out);                                         *)
(*   AlertsSpec     the alerts table and the useSupabaseAlerts hook of the *)
(*                  views that list it;                                    *)
(*   EvictionSpec   the response cache of EnterpriseBackendService at its  *)
(*                  bound of maxSize entries;                              *)
(*   LegacySpec     the useRealTimeAlerts hook, which lists the alerts of  *)
(*                  the REST backend.                                      *)
(* A specification leaves the variables of the other services in the state *)
(* their constructors give them.                                           *)
(*                                                                         *)
(* The browser runs the service on one event loop.  An action is one run   *)
(* of synchronous code between two suspension points that wait for the     *)
(* outside world (fetch(), response.json(), setTimeout); the promise       *)
(* continuations that follow a settled await run in the same microtask     *)
(* checkpoint and belong to the same action.                               *)
(*                                                                         *)
(* Times are milliseconds.  The code compares Date.now() with the time     *)
(* stamps it has stored and reads the clock in no other way, so the model  *)
(* keeps every time stamp relative to the current instant:                 *)
(*   circuitBreaker.sinceFailure = Date.now() - circuitBreaker.lastFailure *)
(*   entry.left                  = entry.expires - Date.now()              *)
(*   req[p].wake                 = time left on the timer of sleep(delay)  *)
(* and lets them age together when time passes.  A value is kept only up   *)
(* to the point where the code's comparison has taken its final answer     *)
(* (sinceFailure up to resetTimeout, left down to -1, wake down to 0).     *)
(* metrics.averageResponseTime (a float that no branch reads) is the only  *)
(* field of the service that is left out.                                  *)
(***************************************************************************)
EXTENDS Integers, Sequences, FiniteSets, TLC

\* ---------------------------------------------------------------- bounds
NumCallers == 2      \* request() calls that may be pending at the same time
MaxCalls == 2        \* request() calls started in one behaviour
MaxTicks == 2        \* times the clock is advanced while nothing else happens

\* ------------------------------------------------------ program constants
maxRetries == 3
baseDelay == 1000
maxDelay == 10000
failureThreshold == 5
resetTimeout == 60000
defaultTTL == 300000
maxSize == 1000

Callers == 1..NumCallers

\* bounds of the detection service's model
NumCycles == 2        \* processFrame() calls that may be pending at the same time
MaxFrames == 2        \* frames captured in one behaviour
MaxDetCalls == 3      \* startDetection() and stopDetection() calls in one behaviour
MaxStored == 2        \* alerts of one key stored in one behaviour
MaxAlerts == 2        \* alerts in the result of one analysis

Cycles == 1..NumCycles
AlertKeys == {"fall_Live Camera", "violence_unknown"}

\* bounds of the alerts' model
NumViews == 2         \* mounted useSupabaseAlerts hooks
NumAlerts == 2        \* alerts inserted in one behaviour
MaxAlertCalls == 4    \* calls of the hooks' functions in one behaviour
MaxPayloads == 2      \* realtime payloads waiting for one view
MaxListed == 3        \* rows in one view's list

Views == 1..NumViews
AlertIds == 1..NumAlerts

\* bounds of the camera service's model
NumDevices == 2       \* video input devices of the host
NumConnectors == 2    \* connectToCamera() calls that may be pending at the same time
NumDiscoverers == 1   \* discoverDevices() passes that may be pending at the same time
MaxCameraCalls == 4   \* calls of the service's methods in one behaviour

Devices == 1..NumDevices
Connectors == 1..NumConnectors
Discoverers == 1..NumDiscoverers

VARIABLES
  circuitBreaker,  \* this.circuitBreaker: [state, failures, sinceFailure]
  cache,           \* this.cache: the Map's entries in insertion order
  metrics,         \* this.metrics: [requests, failures, cacheHits, cacheMisses]
  token,           \* this.token / localStorage auth_token: "none" or "tok"
  authEvents,      \* number of 'auth:required' events dispatched on window
  serverVer,       \* version of the data held by the backend
  req,             \* per caller: where its pending request() call stands
  last,            \* what the request() call that ended last gave its caller
  calls,           \* request() calls started in this behaviour
  ticks,           \* times the clock was advanced in this behaviour
  streak,          \* final failures since the last request that completed successfully
  staleKeys        \* keys whose cache entry was written before the latest completed mutation

requestVars == <<circuitBreaker, cache, metrics, token, authEvents, serverVer,
                 req, last, calls, ticks, streak, staleKeys>>

\* The realtime channel of EnterpriseBackendService.  A socket that
\* this.websocket no longer refers to keeps the handlers connectWebSocket gave
\* it, so it is part of the state until it has closed.
VARIABLES
  websocket,          \* this.websocket: "none" (null) or the socket's readyState
  detached,           \* live sockets this.websocket no longer refers to, per readyState
  reconnectAttempts,  \* this.reconnectAttempts
  reconnectTimers,    \* time left on each pending timer of scheduleReconnect
  realtimeEvents,     \* names of the CustomEvents dispatched on window, in order
  consoleErrors,      \* 'Max WebSocket reconnection attempts reached' lines logged
  wsCalls,            \* connectWebSocket() calls made by the application
  sinceOpen,          \* reconnects scheduled since the last successful open
  lastDelay           \* delay of the reconnect scheduled last (-1: none yet)

realtimeVars == <<websocket, detached, reconnectAttempts, reconnectTimers,
                  realtimeEvents, consoleErrors, wsCalls, sinceOpen, lastDelay>>

\* ProductionCameraService.  A media stream is known by the number it got
\* when getUserMedia() resolved with it; the Connection object that
\* connectToCamera builds around a stream is known by the same number.
VARIABLES
  connectedCameras,    \* this.connectedCameras: per device "absent" or the descriptor's status
  deviceCapabilities,  \* this.deviceCapabilities: per device "absent", "probed" or "empty" ({})
  connectionStatus,    \* this.connectionStatus: per device "unset" or the status string
  activeStreams,       \* this.activeStreams: entries [cameraId, conn] in insertion order
  streams,             \* the streams connectToCamera obtained: [device, state of the track]
  probeStreams,        \* devices with a stream of getDeviceCapabilities whose tracks are live
  statusCallbacks,     \* size of this.statusCallbacks
  monitors,            \* 'devicechange' listeners registered on navigator.mediaDevices
  isInitialized,       \* this.isInitialized
  connecting,          \* per caller: where its pending connectToCamera() call stands
  discovering,         \* per pass: where a pending discoverDevices() call stands
  notices,             \* status events delivered to the status callbacks
  lastNotice,          \* the status event delivered last
  camCalls,            \* calls of the service's methods made in this behaviour
  camCall,             \* the call made last: [op, device]
  camLast,             \* how the call that ended last ended: [res, conn]
  teardownThrew,       \* devices whose teardown threw in the call made last
  disposed             \* dispose() has run

cameraVars == <<connectedCameras, deviceCapabilities, connectionStatus, activeStreams,
                streams, probeStreams, statusCallbacks, monitors, isInitialized, connecting,
                discovering, notices, lastNotice, camCalls, camCall, camLast,
                teardownThrew, disposed>>

\* The derivation of the resolutions a device is offered with
VARIABLES
  capabilities,       \* the capability envelope a probe has read
  resolutions,        \* cameraInfo.resolutions of ProductionCameraService
  resolutionOptions   \* the camera's resolutions of CameraDiscoveryService

ladderVars == <<capabilities, resolutions, resolutionOptions>>

\* RealTimeDetectionService
VARIABLES
  isActive,           \* this.isActive
  detectionInterval,  \* this.detectionInterval: "none", or the timer "armed" or "due"
  isProcessing,       \* this.isProcessing
  frameCount,         \* this.frameCount
  currentStream,      \* this.currentStream is set
  alertCooldowns,     \* this.alertCooldowns: per key the time since its stamp
  cycles,             \* the processFrame() calls that are awaiting something
  persisted,          \* per key: alerts SupabaseService.createAlert has stored
  detCalls,           \* startDetection() and stopDetection() calls made
  detLast,            \* the method called last and how it ended: [op, res]
  accepted            \* per key: the time since the test of line 160 was passed
                      \* for the alert stored last

detectionVars == <<isActive, detectionInterval, isProcessing, frameCount,
                   currentStream, alertCooldowns, cycles, persisted, detCalls,
                   detLast, accepted>>

\* The alerts table of the store and the useSupabaseAlerts hooks that show it
VARIABLES
  store,              \* the rows of the alerts table, by alert
  created,            \* alerts inserted so far
  viewAlerts,         \* per view: the hook's `alerts` state, a list of rows
  loading,            \* per view: the loadAlerts() call that is pending
  acknowledging,      \* per view: the acknowledgeAlert() call that is pending
  clearing,           \* per view: a clearAllAlerts() call is pending
  payloads,           \* per view: the realtime payloads still to be delivered
  alertCalls          \* calls of the hooks' functions made

alertVars == <<store, created, viewAlerts, loading, acknowledging, clearing, payloads,
               alertCalls>>

\* The useRealTimeAlerts hook, which lists the alerts of the REST backend
VARIABLES
  legacyAlerts,         \* the hook's `alerts` state, a list of rows
  legacyAcknowledging   \* the alert whose acknowledgeAlert() call is pending, or 0

legacyVars == <<legacyAlerts, legacyAcknowledging>>

vars == <<requestVars, realtimeVars, cameraVars, ladderVars, detectionVars, alertVars,
          legacyVars>>

\* What the actions of one service leave alone
outsideRequest ==
  <<realtimeVars, cameraVars, ladderVars, detectionVars, alertVars, legacyVars>>
outsideRealtime ==
  <<cameraVars, ladderVars, detectionVars, alertVars, legacyVars>>
outsideCamera ==
  <<requestVars, realtimeVars, ladderVars, detectionVars, alertVars, legacyVars>>
outsideLadder ==
  <<requestVars, realtimeVars, cameraVars, detectionVars, alertVars, legacyVars>>
outsideDetection ==
  <<requestVars, realtimeVars, cameraVars, ladderVars, alertVars, legacyVars>>
outsideAlerts ==
  <<requestVars, realtimeVars, cameraVars, ladderVars, detectionVars, legacyVars>>
outsideLegacy ==
  <<requestVars, realtimeVars, cameraVars, ladderVars, detectionVars, alertVars>>

Max(a, b) == IF a >= b THEN a ELSE b
Min(a, b) == IF a <= b THEN a ELSE b

RECURSIVE Pow2(_)
Pow2(n) == IF n = 0 THEN 1 ELSE 2 * Pow2(n - 1)

\* ------------------------------------------------------------ the API
\* The wrappers of the client: endpoint, options.method ("GET" stands for an
\* options object without method) and whether the wrapper calls clearCache()
\* before it calls request().
Api ==
  [ getAlerts    |-> [endpoint |-> "/alerts",  method |-> "GET",  clears |-> FALSE],
    createAlert  |-> [endpoint |-> "/alerts",  method |-> "POST", clears |-> FALSE],
    updateCamera |-> [endpoint |-> "/cameras/1", method |-> "PUT", clears |-> TRUE] ]

Ops == DOMAIN Api

IsRead(method) == method # "POST" /\ method # "PUT" /\ method # "DELETE"

\* `${endpoint}_${JSON.stringify(options.params || {})}`: none of the wrappers
\* above passes params other than {}.
getCacheKey(endpoint) == <<endpoint, "{}">>

KeyOf(op) == getCacheKey(Api[op].endpoint)

\* ------------------------------------------------------------ errors
\* An error is the record of what was thrown; its message is a sequence of
\* characters, with a reason phrase or a fixed text (which hold no digits)
\* kept as one element.
NoError == [kind |-> "none", status |-> 0]
CircuitOpenError == [kind |-> "circuit", status |-> 0]
AuthError == [kind |-> "auth", status |-> 401]
JsonError == [kind |-> "json", status |-> 200]
HttpError(s) == [kind |-> "http", status |-> s]
NetError == [kind |-> "net", status |-> 0]

Digit(d) == <<"0", "1", "2", "3", "4", "5", "6", "7", "8", "9">>[d + 1]

StatusDigits(s) == <<Digit(s \div 100), Digit((s \div 10) % 10), Digit(s % 10)>>

StatusText(s) ==
  CASE s = 404 -> <<"Not Found">>
    [] s = 500 -> <<"Internal Server Error">>
    [] s = 501 -> <<"Not Implemented">>
    [] s = 502 -> <<"Bad Gateway">>
    [] s = 503 -> <<"Service Unavailable">>
    [] s = 504 -> <<"Gateway Timeout">>
    [] OTHER -> <<>>

Message(error) ==
  CASE error.kind = "http" ->
         <<"H", "T", "T", "P", " ">> \o StatusDigits(error.status)
           \o <<":", " ">> \o StatusText(error.status)
    [] error.kind = "auth" -> <<"Authentication required">>
    [] error.kind = "net" -> <<"Failed to fetch">>
    [] error.kind = "json" -> <<"Unexpected token">>
    [] error.kind = "circuit" ->
         <<"Circuit breaker is open - service temporarily unavailable">>
    [] OTHER -> <<>>

\* String.prototype.includes
Includes(msg, pat) ==
  \E i \in 1..(Len(msg) - Len(pat) + 1) : SubSeq(msg, i, i + Len(pat) - 1) = pat

\* A retry policy that retries whatever was thrown.
shouldRetryAnyError(error) == TRUE

shouldRetry(error) ==
  \/ Includes(Message(error), <<"Failed to fetch">>)
  \/ Includes(Message(error), <<"5", "0", "0">>)
  \/ Includes(Message(error), <<"5", "0", "2">>)
  \/ Includes(Message(error), <<"5", "0", "3">>)
  \/ Includes(Message(error), <<"5", "0", "4">>)

\* Math.min(baseDelay * Math.pow(2, attempt), maxDelay)
RetryDelay(attempt) == Min(baseDelay * Pow2(attempt), maxDelay)

\* ------------------------------------------------------------ the cache
HasKey(c, key) == \E i \in 1..Len(c) : c[i].key = key

Entry(c, key) == c[CHOOSE i \in 1..Len(c) : c[i].key = key]

cacheDelete(c, key) == SelectSeq(c, LAMBDA e : e.key # key)

\* An expiry test that is off by one: Date.now() >= cached.expires.
CacheExpiredAtDeadline(c, key) == HasKey(c, key) /\ Entry(c, key).left <= 0

\* getFromCache, line 167: Date.now() > cached.expires
CacheExpired(c, key) == HasKey(c, key) /\ Entry(c, key).left < 0

\* getFromCache returns the data of the entry
CacheHit(c, key) == HasKey(c, key) /\ ~CacheExpired(c, key)

\* the Map after getFromCache(key): an expired entry is deleted
CacheAfterGet(c, key) == IF CacheExpired(c, key) THEN cacheDelete(c, key) ELSE c

\* A setCache that evicts nothing.
setCacheUnbounded(c, key, data) ==
  LET e == [key |-> key, data |-> data, left |-> defaultTTL]
  IN  IF HasKey(c, key)
        THEN [i \in 1..Len(c) |-> IF c[i].key = key THEN e ELSE c[i]]
        ELSE Append(c, e)

\* setCache with the default ttl.  Map.set on a key that is present keeps the
\* key's place in the insertion order.
setCache(c, key, data) ==
  LET c1 == IF Len(c) >= maxSize THEN Tail(c) ELSE c
      e  == [key |-> key, data |-> data, left |-> defaultTTL]
  IN  IF HasKey(c1, key)
        THEN [i \in 1..Len(c1) |-> IF c1[i].key = key THEN e ELSE c1[i]]
        ELSE Append(c1, e)

CacheKeys(c) == {c[i].key : i \in 1..Len(c)}

\* ---------------------------------------------------- the circuit breaker
\* request(), lines 53-55: does the open circuit reject the call?
CircuitRejects(cb) == cb.state = "open" /\ cb.sinceFailure < resetTimeout

\* A check that closes the circuit once the timeout has passed.
CircuitAfterCheckCloses(cb) ==
  IF cb.state = "open" /\ ~(cb.sinceFailure < resetTimeout)
    THEN [cb EXCEPT !.state = "closed"]
    ELSE cb

\* request(), lines 53-59: the breaker after the check, for a call let through
CircuitAfterCheck(cb) ==
  IF cb.state = "open" /\ ~(cb.sinceFailure < resetTimeout)
    THEN [cb EXCEPT !.state = "half-open"]
    ELSE cb

\* A success handling that closes the circuit and keeps the failure count.
CircuitAfterSuccessKeepsCount(cb) ==
  IF cb.state = "half-open" THEN [cb EXCEPT !.state = "closed"] ELSE cb

\* request(), lines 65-68
CircuitAfterSuccess(cb) ==
  IF cb.state = "half-open"
    THEN [cb EXCEPT !.state = "closed", !.failures = 0]
    ELSE cb

\* A failure handling that leaves lastFailure as it was.
CircuitAfterFailureKeepsTime(cb) ==
  LET n == cb.failures + 1
  IN  [state |-> IF n >= failureThreshold THEN "open" ELSE cb.state,
       failures |-> n,
       sinceFailure |-> cb.sinceFailure]

\* A failure handling that opens the circuit one failure late (> for >=).
CircuitAfterFailureLate(cb) ==
  LET n == cb.failures + 1
  IN  [state |-> IF n > failureThreshold THEN "open" ELSE cb.state,
       failures |-> n,
       sinceFailure |-> 0]

\* handleRequestFailure, lines 141-146
CircuitAfterFailure(cb) ==
  LET n == cb.failures + 1
  IN  [state |-> IF n >= failureThreshold THEN "open" ELSE cb.state,
       failures |-> n,
       sinceFailure |-> 0]

\* A cache hit that is also counted as a request.
cacheHitCountsRequest(m) == [m EXCEPT !.cacheHits = @ + 1, !.requests = @ + 1]

\* request(), line 46 and line 49
cacheHitMetrics(m) == [m EXCEPT !.cacheHits = @ + 1]

cacheMissMetrics(m) == [m EXCEPT !.cacheMisses = @ + 1]

\* A metrics update that counts the request and not the failure.
updateMetricsRequestsOnly(m, success) == [m EXCEPT !.requests = @ + 1]

\* updateMetrics
updateMetrics(m, success) ==
  [m EXCEPT !.requests = @ + 1,
            !.failures = IF success THEN @ ELSE @ + 1]

\* ------------------------------------------------------------ time
\* d milliseconds pass
AgedBreaker(cb, d) == [cb EXCEPT !.sinceFailure = Min(@ + d, resetTimeout)]

AgedCache(c, d) == [i \in 1..Len(c) |-> [c[i] EXCEPT !.left = Max(@ - d, -1)]]

AgedReq(r, d) == [p \in Callers |-> [r[p] EXCEPT !.wake = Max(@ - d, 0)]]

\* ------------------------------------------------------------ state
Idle == [pc |-> "idle", op |-> "getAlerts", attempt |-> 0, wake |-> 0, data |-> 0]

NoCall == [res |-> "none", op |-> "getAlerts", data |-> 0, error |-> NoError, fetches |-> 0,
           stale |-> FALSE]

Outcome(op, res, data, error, fetches, stale) ==
  [op |-> op, res |-> res, data |-> data, error |-> error, fetches |-> fetches,
   stale |-> stale]

\* The states a behaviour starts in: the service after its construction, with
\* the token of an earlier session in localStorage, then (if cached) after one
\* getAlerts call that the backend answered with its data, then after n calls
\* of createAlert that the backend has just answered with 404.  lastFailure is
\* null after construction, and Date.now() - null is the time since 1970.
AfterCalls(n, cached) ==
  /\ circuitBreaker =
       [state |-> IF n >= failureThreshold THEN "open" ELSE "closed",
        failures |-> n,
        sinceFailure |-> IF n = 0 THEN resetTimeout ELSE 0]
  /\ cache = IF cached THEN setCache(<<>>, KeyOf("getAlerts"), 1) ELSE <<>>
  /\ metrics = [requests |-> n + (IF cached THEN 1 ELSE 0), failures |-> n,
                cacheHits |-> 0, cacheMisses |-> IF cached THEN 1 ELSE 0]
  /\ token = "tok"
  /\ authEvents = 0
  /\ serverVer = 1
  /\ req = [p \in Callers |-> Idle]
  /\ last = IF n > 0
              THEN Outcome("createAlert", "error", 0, HttpError(404), 1, FALSE)
              ELSE IF cached THEN Outcome("getAlerts", "ok", 1, NoError, 1, FALSE)
              ELSE NoCall
  /\ calls = 0
  /\ ticks = 0
  /\ streak = n
  /\ staleKeys = {}

\* n is 0, one failure short of the breaker's threshold, or the threshold
PriorFailures == {0, failureThreshold - 1, failureThreshold}

\* The realtime channel after construction (lines 32-34): no socket, no timer.
RealtimeConstructed ==
  /\ websocket = "none"
  /\ detached = [connecting |-> 0, open |-> 0, closing |-> 0]
  /\ reconnectAttempts = 0
  /\ reconnectTimers = <<>>
  /\ realtimeEvents = <<>>
  /\ consoleErrors = 0
  /\ wsCalls = 0
  /\ sinceOpen = 0
  /\ lastDelay = -1

\* A connectToCamera() call and a discoverDevices() pass that are not running
NotConnecting == [pc |-> "idle", device |-> 1, camera |-> "none"]

NotDiscovering == [pc |-> "idle", by |-> "none", queue |-> <<>>]

NoNotice == [cameraId |-> 0, status |-> "none"]

\* The maps and sets of the camera service, all empty
MapsCleared ==
  /\ connectedCameras = [d \in Devices |-> "absent"]
  /\ deviceCapabilities = [d \in Devices |-> "absent"]
  /\ connectionStatus = [d \in Devices |-> "unset"]
  /\ activeStreams = <<>>
  /\ statusCallbacks = 0
  /\ isInitialized = FALSE

\* The camera service after construction (lines 3-12)
CameraConstructed ==
  /\ MapsCleared
  /\ streams = <<>>
  /\ probeStreams = {}
  /\ monitors = 0
  /\ connecting = [c \in Connectors |-> NotConnecting]
  /\ discovering = [k \in Discoverers |-> NotDiscovering]
  /\ notices = 0
  /\ lastNotice = NoNotice
  /\ camCalls = 0
  /\ camCall = [op |-> "none", device |-> 0]
  /\ camLast = [res |-> "none", conn |-> 0]
  /\ teardownThrew = {}
  /\ disposed = FALSE

\* No capability envelope has been read
Underived == <<"underived">>

NoEnvelope == [hasWidth |-> FALSE, widthMax |-> 0, hasHeight |-> FALSE, heightMax |-> 0]

LadderUnused ==
  /\ capabilities = NoEnvelope
  /\ resolutions = Underived
  /\ resolutionOptions = Underived

cooldownPeriod == 5000   \* this.cooldownPeriod
framePeriod == 1000      \* the delay of the timer of scheduleNextFrame

\* No stamp within the cooldown period: every time since a stamp from
\* cooldownPeriod on, and a key without a stamp (get(alertKey) || 0), pass
\* the test of line 160 alike.
Unstamped == [k \in AlertKeys |-> cooldownPeriod]

\* The time up to which `accepted` is counted
Horizon == 2 * cooldownPeriod

\* A processFrame() call that is not running
NoCycle == [pc |-> "idle", alerts |-> <<>>, sinceNow |-> 0]

\* The detection service after construction (lines 6-18)
DetectionConstructed ==
  /\ isActive = FALSE
  /\ detectionInterval = "none"
  /\ isProcessing = FALSE
  /\ frameCount = 0
  /\ currentStream = FALSE
  /\ alertCooldowns = Unstamped
  /\ cycles = [c \in Cycles |-> NoCycle]
  /\ persisted = [k \in AlertKeys |-> 0]
  /\ detCalls = 0
  /\ detLast = [op |-> "none", res |-> "none"]
  /\ accepted = [k \in AlertKeys |-> Horizon]

\* A row that is not in the table
NoRow == [present |-> FALSE, acknowledged |-> FALSE,
          acknowledged_by |-> "null", acknowledged_at |-> "null"]

NotLoading == [pc |-> "idle", data |-> <<>>]
NotAcknowledging == [pc |-> "idle", alert |-> 1]

\* An empty alerts table and hooks that have just been mounted (part_004
\* lines 5-7)
AlertsUnused ==
  /\ store = [a \in AlertIds |-> NoRow]
  /\ created = 0
  /\ viewAlerts = [v \in Views |-> <<>>]
  /\ loading = [v \in Views |-> NotLoading]
  /\ acknowledging = [v \in Views |-> NotAcknowledging]
  /\ clearing = [v \in Views |-> FALSE]
  /\ payloads = [v \in Views |-> <<>>]
  /\ alertCalls = 0

\* A useRealTimeAlerts hook that has just been mounted (part_002 lines 5-8)
LegacyUnused ==
  /\ legacyAlerts = <<>>
  /\ legacyAcknowledging = 0

\* The requests are studied with the realtime channel never connected and the
\* camera and detection services never used.
Init ==
  /\ \E n \in PriorFailures, cached \in BOOLEAN : AfterCalls(n, cached)
  /\ RealtimeConstructed
  /\ CameraConstructed
  /\ LadderUnused
  /\ DetectionConstructed
  /\ AlertsUnused
  /\ LegacyUnused

\* ------------------------------------------------------------ actions
\* A wrapper of the API is called: clearCache() for the camera mutations, then
\* request() up to its first suspension, the first fetch() of executeRequest.
ApiCall(p, op) ==
  LET a    == Api[op]
      key  == KeyOf(op)
      read == IsRead(a.method)
      c0   == IF a.clears THEN <<>> ELSE cache
      hit  == read /\ CacheHit(c0, key)
      c1   == IF read THEN CacheAfterGet(c0, key) ELSE c0
      m1   == IF read THEN cacheMissMetrics(metrics) ELSE metrics
  IN  /\ req[p].pc = "idle"
      /\ calls < MaxCalls
      /\ calls' = calls + 1
      /\ UNCHANGED <<token, authEvents, serverVer, streak, ticks>>
      /\ IF hit
           THEN /\ metrics' = cacheHitMetrics(metrics)
                /\ last' = Outcome(op, "hit", Entry(c0, key).data, NoError, 0,
                                   key \in staleKeys)
                /\ cache' = c0
                /\ UNCHANGED <<circuitBreaker, req>>
           ELSE /\ metrics' = m1
                /\ cache' = c1
                /\ IF CircuitRejects(circuitBreaker)
                     THEN /\ last' = Outcome(op, "error", 0, CircuitOpenError, 0, FALSE)
                          /\ UNCHANGED <<circuitBreaker, req>>
                     ELSE /\ circuitBreaker' = CircuitAfterCheck(circuitBreaker)
                          /\ req' = [req EXCEPT ![p] =
                               [Idle EXCEPT !.pc = "fetch", !.op = op]]
                          /\ UNCHANGED last
      /\ staleKeys' = staleKeys \cap CacheKeys(cache')

\* A catch block that reports every failed attempt to the breaker and the
\* metrics, not only the final one.
ThrownCountsEveryAttempt(p, error) ==
  /\ circuitBreaker' = CircuitAfterFailure(circuitBreaker)
  /\ metrics' = updateMetrics(metrics, FALSE)
  /\ IF req[p].attempt < maxRetries /\ shouldRetry(error)
       THEN /\ req' = [req EXCEPT ![p].pc = "sleep",
                                  ![p].wake = RetryDelay(req[p].attempt)]
            /\ UNCHANGED <<streak, last>>
       ELSE /\ req' = [req EXCEPT ![p] = Idle]
            /\ last' = Outcome(req[p].op, "error", 0, error, req[p].attempt + 1, FALSE)
            /\ streak' = streak + 1

\* executeRequest's catch block (lines 113-128) and, when the loop gives up,
\* the catch block of request() (lines 80-83) with handleRequestFailure.
Thrown(p, error) ==
  IF req[p].attempt < maxRetries /\ shouldRetry(error)
    THEN /\ req' = [req EXCEPT ![p].pc = "sleep",
                               ![p].wake = RetryDelay(req[p].attempt)]
         /\ UNCHANGED <<circuitBreaker, metrics, streak, last>>
    ELSE /\ req' = [req EXCEPT ![p] = Idle]
         /\ last' = Outcome(req[p].op, "error", 0, error, req[p].attempt + 1, FALSE)
         /\ circuitBreaker' = CircuitAfterFailure(circuitBreaker)
         /\ metrics' = updateMetrics(metrics, FALSE)
         /\ streak' = streak + 1

\* A fetch() handling that caches the answer of a read before its body has
\* been parsed.
FetchOkCachesEarly(p) ==
  /\ req[p].pc = "fetch"
  /\ serverVer' = IF IsRead(Api[req[p].op].method) THEN serverVer ELSE serverVer + 1
  /\ req' = [req EXCEPT ![p].pc = "json", ![p].data = serverVer']
  /\ cache' = IF IsRead(Api[req[p].op].method)
                THEN setCache(cache, KeyOf(req[p].op), serverVer')
                ELSE cache
  /\ UNCHANGED <<circuitBreaker, metrics, token, authEvents, last, calls,
                 ticks, streak, staleKeys>>

\* fetch() resolves with a 2xx response; executeRequest awaits response.json().
\* The backend has applied the call: a mutation gave its data a new version.
FetchOk(p) ==
  /\ req[p].pc = "fetch"
  /\ serverVer' = IF IsRead(Api[req[p].op].method) THEN serverVer ELSE serverVer + 1
  /\ req' = [req EXCEPT ![p].pc = "json", ![p].data = serverVer']
  /\ UNCHANGED <<circuitBreaker, cache, metrics, token, authEvents, last, calls,
                 ticks, streak, staleKeys>>

\* fetch() resolves with status 401: handleUnauthorized, then the throw
FetchUnauthorized(p) ==
  /\ req[p].pc = "fetch"
  /\ token' = "none"
  /\ authEvents' = authEvents + 1
  /\ Thrown(p, AuthError)
  /\ UNCHANGED <<cache, serverVer, calls, ticks, staleKeys>>

\* fetch() resolves with another status that is not 2xx
ErrorStatuses == {404, 501, 503}

FetchHttpError(p, s) ==
  /\ req[p].pc = "fetch"
  /\ Thrown(p, HttpError(s))
  /\ UNCHANGED <<cache, token, authEvents, serverVer, calls, ticks, staleKeys>>

\* fetch() rejects with the TypeError 'Failed to fetch': the network failed
FetchNetworkError(p) ==
  /\ req[p].pc = "fetch"
  /\ Thrown(p, NetError)
  /\ UNCHANGED <<cache, token, authEvents, serverVer, calls, ticks, staleKeys>>

\* response.json() rejects: the body is no JSON
JsonFail(p) ==
  /\ req[p].pc = "json"
  /\ Thrown(p, JsonError)
  /\ UNCHANGED <<cache, token, authEvents, serverVer, calls, ticks, staleKeys>>

\* response.json() resolves; executeRequest returns and request() runs lines
\* 64-79.  A body such as null parses to a falsy value (data 0).
JsonOk(p, truthy) ==
  LET op   == req[p].op
      read == IsRead(Api[op].method)
      data == IF truthy THEN req[p].data ELSE 0
      c1   == IF truthy /\ read THEN setCache(cache, KeyOf(op), data) ELSE cache
  IN  /\ req[p].pc = "json"
      /\ circuitBreaker' = CircuitAfterSuccess(circuitBreaker)
      /\ cache' = c1
      /\ metrics' = updateMetrics(metrics, TRUE)
      /\ req' = [req EXCEPT ![p] = Idle]
      /\ last' = Outcome(op, "ok", data, NoError, req[p].attempt + 1, FALSE)
      /\ streak' = 0
      /\ staleKeys' = IF read
                        THEN (IF truthy THEN staleKeys \ {KeyOf(op)} ELSE staleKeys)
                        ELSE CacheKeys(c1)
      /\ UNCHANGED <<token, authEvents, serverVer, calls, ticks>>

\* The timer of sleep(delay) fires, the time that was left on it having
\* passed, and the loop of executeRequest calls fetch() again.
TimerFire(p) ==
  LET d == req[p].wake
  IN  /\ req[p].pc = "sleep"
      /\ circuitBreaker' = AgedBreaker(circuitBreaker, d)
      /\ cache' = AgedCache(cache, d)
      /\ req' = [AgedReq(req, d) EXCEPT ![p].pc = "fetch", ![p].attempt = @ + 1]
      /\ UNCHANGED <<metrics, token, authEvents, serverVer, last, calls, ticks,
                     streak, staleKeys>>

\* Time passes while nothing else happens.
TickSteps == {resetTimeout, defaultTTL}

Tick(d) ==
  /\ ticks < MaxTicks
  /\ ticks' = ticks + 1
  /\ circuitBreaker' = AgedBreaker(circuitBreaker, d)
  /\ cache' = AgedCache(cache, d)
  /\ req' = AgedReq(req, d)
  /\ UNCHANGED <<metrics, token, authEvents, serverVer, last, calls, streak,
                 staleKeys>>

Next ==
  \/ \E p \in Callers, op \in Ops : ApiCall(p, op) /\ UNCHANGED outsideRequest
  \/ \E p \in Callers : FetchOk(p) /\ UNCHANGED outsideRequest
  \/ \E p \in Callers : FetchUnauthorized(p) /\ UNCHANGED outsideRequest
  \/ \E p \in Callers, s \in ErrorStatuses :
       FetchHttpError(p, s) /\ UNCHANGED outsideRequest
  \/ \E p \in Callers : FetchNetworkError(p) /\ UNCHANGED outsideRequest
  \/ \E p \in Callers : JsonFail(p) /\ UNCHANGED outsideRequest
  \/ \E p \in Callers, truthy \in BOOLEAN : JsonOk(p, truthy) /\ UNCHANGED outsideRequest
  \/ \E p \in Callers : TimerFire(p) /\ UNCHANGED outsideRequest
  \/ \E d \in TickSteps : Tick(d) /\ UNCHANGED outsideRequest

Spec == Init /\ [][Next]_vars


\* ------------------------------------------------------------ claims
\* What a step is, read off the two states of the step.
\* A step in which a wrapper of the API is called with op:
StartedOp(op) ==
  /\ calls' = calls + 1
  /\ \/ req' = req /\ last'.op = op
     \/ \E p \in Callers : req[p].pc = "idle" /\ req'[p].pc = "fetch" /\ req'[p].op = op

\* A step in which some call makes its first fetch():
StartsFetch == \E p \in Callers : req[p].pc = "idle" /\ req'[p].pc = "fetch"

\* A step in which the request() call of p returns a payload:
Returns(p) == req[p].pc = "json" /\ req'[p].pc = "idle" /\ last'.res = "ok"

\* The circuit is open and the reset timeout has not elapsed:
InOpenWindow ==
  circuitBreaker.state = "open" /\ circuitBreaker.sinceFailure < resetTimeout

\* The entry of the cache for the key of op, if there is one, has not expired:
Fresh(op) == HasKey(cache, KeyOf(op)) /\ Entry(cache, KeyOf(op)).left >= 0

ReadOps == {op \in Ops : IsRead(Api[op].method)}

\* C1: once 5 request() calls in a row have ended in final failure the circuit
\* is open for the 60 s that follow the last failure, and in that time every
\* call that is not a cache hit ends with the 'service temporarily
\* unavailable' error, no fetch() made and nothing else changed.
C1_FailFastAfterFiveFailures ==
  [][ /\ (streak' >= failureThreshold /\ circuitBreaker'.sinceFailure < resetTimeout)
          => circuitBreaker'.state = "open"
      /\ \A op \in Ops :
           ( /\ streak >= failureThreshold
             /\ circuitBreaker.sinceFailure < resetTimeout
             /\ StartedOp(op)
             /\ ~(op \in ReadOps /\ Fresh(op)) )
           => /\ last' = Outcome(op, "error", 0, CircuitOpenError, 0, FALSE)
              /\ ~StartsFetch
              /\ UNCHANGED <<circuitBreaker, req, token, authEvents, serverVer>> ]_vars

C1_Witness ==
  /\ streak >= failureThreshold
  /\ InOpenWindow
  /\ calls >= 1
  /\ last.error = CircuitOpenError
  /\ last.fetches = 0

\* C2: while the circuit is half-open, which it is from the moment the probe
\* is let through until a request ends, no other request() call reaches the
\* network.
C2_SingleProbe ==
  [][ circuitBreaker.state = "half-open" => ~StartsFetch ]_vars

\* C3: the circuit goes from closed to open only when the failure that opens it
\* is the 5th final failure since the last request that completed successfully.
C3_OpensOnConsecutiveFailures ==
  [][ (circuitBreaker.state = "closed" /\ circuitBreaker'.state = "open")
        => streak' >= failureThreshold ]_vars

\* C4: a request that returns its payload while the circuit is half-open
\* closes the circuit and sets the failure counter to 0.
C4_ProbeSuccessCloses ==
  [][ \A p \in Callers :
        (circuitBreaker.state = "half-open" /\ Returns(p))
          => /\ circuitBreaker'.state = "closed"
             /\ circuitBreaker'.failures = 0 ]_vars

C4_Witness ==
  /\ circuitBreaker.state = "closed"
  /\ circuitBreaker.failures = 0
  /\ metrics.failures >= failureThreshold
  /\ last.res = "ok"


\* C5: a read call whose key has an unexpired entry returns the data of that
\* entry, adds 1 to the cache-hit counter and changes nothing else of the
\* service: no fetch() is made and the circuit breaker is left as it was, also
\* when the circuit is open.
C5_CacheHitTouchesNothingElse ==
  [][ \A op \in ReadOps :
        (StartedOp(op) /\ Fresh(op))
          => /\ last'.res = "hit"
             /\ last'.op = op
             /\ last'.data = Entry(cache, KeyOf(op)).data
             /\ last'.error = NoError
             /\ last'.fetches = 0
             /\ metrics' = [metrics EXCEPT !.cacheHits = @ + 1]
             /\ ~StartsFetch
             /\ UNCHANGED <<circuitBreaker, cache, req, token, authEvents, serverVer,
                            streak>> ]_vars

C5_Witness ==
  /\ last.res = "hit"
  /\ last.data = 1
  /\ metrics.cacheHits = 1
  /\ InOpenWindow

C7_NoStaleReadAfterMutation == last.res = "hit" => ~last.stale

\* C8: a request that ends with a network error or a 5xx status as its last
\* error has made maxRetries + 1 fetch() calls.
C8_RetriesEvery5xx ==
  ( /\ last.res = "error"
    /\ \/ last.error.kind = "net"
       \/ last.error.kind = "http" /\ last.error.status >= 500 /\ last.error.status <= 599 )
  => last.fetches = maxRetries + 1

\* C9: the step in which a 401 response has any of its effects has all of
\* them: the token is cleared, one auth:required event is dispatched, the call
\* ends with the 'Authentication required' error and makes no further fetch().
C9_UnauthorizedFailsFast ==
  [][ \A p \in Callers :
        ( /\ req[p].pc = "fetch"
          /\ req'[p] # req[p]
          /\ \/ authEvents' # authEvents
             \/ token' # token
             \/ last'.error = AuthError /\ last' # last )
        => /\ token' = "none"
           /\ authEvents' = authEvents + 1
           /\ req'[p] = Idle
           /\ last' = Outcome(req[p].op, "error", 0, AuthError, req[p].attempt + 1, FALSE)
    ]_vars

C9_Witness ==
  /\ last.error = AuthError
  /\ last.fetches = 2
  /\ token = "none"
  /\ authEvents = 1

\* C10: a failed attempt that is retried leaves the breaker and the metrics as
\* they are, and the call that succeeds after it returns the payload without
\* raising the failure counter or the failure metric and without recording a
\* failure time; the breaker's state changes only from half-open to closed.
C10_RetriedAttemptsLeaveBreaker ==
  [][ \A p \in Callers :
        /\ (req[p].pc = "fetch" /\ req'[p].pc = "sleep")
             => UNCHANGED <<circuitBreaker, metrics, streak, last>>
        /\ (req[p].pc = "sleep" /\ req'[p].pc = "fetch")
             => /\ circuitBreaker' = AgedBreaker(circuitBreaker, req[p].wake)
                /\ metrics' = metrics
        /\ (Returns(p) /\ req[p].attempt > 0)
             => /\ last'.data = req[p].data \/ last'.data = 0
                /\ last'.fetches = req[p].attempt + 1
                /\ metrics'.failures = metrics.failures
                /\ circuitBreaker'.sinceFailure = circuitBreaker.sinceFailure
                /\ circuitBreaker'.failures <= circuitBreaker.failures
                /\ \/ circuitBreaker' = circuitBreaker
                   \/ circuitBreaker.state = "half-open" ]_vars

C10_Witness ==
  /\ last.res = "ok"
  /\ last.fetches = 3
  /\ last.data = 1
  /\ circuitBreaker = [state |-> "closed", failures |-> 0, sinceFailure |-> resetTimeout]
  /\ metrics.failures = 0


\* ================================================================
\* The realtime channel: connectWebSocket, scheduleReconnect,
\* handleWebSocketMessage and the channel's part of logout().
\* ================================================================
MaxWsCalls == 2      \* connectWebSocket() calls the application makes
MaxWsMessages == 1   \* push messages received in one behaviour

maxReconnectAttempts == 10
reconnectBase == 1000
reconnectCap == 30000

\* The time step of the realtime model: every delay is a multiple of the base.
Second == reconnectBase

\* handleWebSocketMessage: the event dispatched for a message's type tag
MessageTypes == {"alert", "camera_status", "system_update", "heartbeat"}

handleWebSocketMessage(type) ==
  CASE type = "alert" -> "realtime:alert"
    [] type = "camera_status" -> "realtime:camera"
    [] type = "system_update" -> "realtime:system"
    [] OTHER -> "realtime:message"

\* getMetrics().websocketConnected (line 462)
websocketConnected == websocket = "open"

\* A backoff that keeps doubling, without the cap
ReconnectDelayUncapped(n) == reconnectBase * Pow2(n)

\* The backoff delay of scheduleReconnect (line 239)
ReconnectDelay(n) == Min(reconnectBase * Pow2(n), reconnectCap)

\* connectWebSocket (lines 193-231) up to its return: nothing when the socket
\* is OPEN; otherwise a new socket replaces this.websocket, and the one it
\* replaces stays alive, with its handlers, while it is CONNECTING.
connectWebSocket ==
  IF websocket = "open"
    THEN UNCHANGED <<websocket, detached>>
    ELSE /\ websocket' = "connecting"
         /\ detached' = IF websocket = "connecting"
                          THEN [detached EXCEPT !.connecting = @ + 1]
                          ELSE detached

\* onopen (lines 203-207)
OnOpen == reconnectAttempts' = 0

\* scheduleReconnect (lines 233-246) up to its return
scheduleReconnect ==
  IF reconnectAttempts >= maxReconnectAttempts
    THEN /\ consoleErrors' = consoleErrors + 1
         /\ UNCHANGED <<reconnectAttempts, reconnectTimers, sinceOpen, lastDelay>>
    ELSE /\ reconnectTimers' = Append(reconnectTimers, ReconnectDelay(reconnectAttempts))
         /\ lastDelay' = ReconnectDelay(reconnectAttempts)
         /\ reconnectAttempts' = reconnectAttempts + 1
         /\ sinceOpen' = sinceOpen + 1
         /\ UNCHANGED consoleErrors

\* The application (App's effect, login()) calls connectWebSocket().
ConnectCall ==
  /\ wsCalls < MaxWsCalls
  /\ wsCalls' = wsCalls + 1
  /\ connectWebSocket
  /\ UNCHANGED <<reconnectAttempts, reconnectTimers, realtimeEvents, consoleErrors,
                 sinceOpen, lastDelay, requestVars>>

\* The socket of this.websocket opens.
SocketOpens ==
  /\ websocket = "connecting"
  /\ websocket' = "open"
  /\ OnOpen
  /\ sinceOpen' = 0
  /\ UNCHANGED <<detached, reconnectTimers, realtimeEvents, consoleErrors, wsCalls,
                 lastDelay, requestVars>>

\* A socket that was replaced while CONNECTING opens.
DetachedOpens ==
  /\ detached.connecting > 0
  /\ detached' = [detached EXCEPT !.connecting = @ - 1, !.open = @ + 1]
  /\ OnOpen
  /\ sinceOpen' = 0
  /\ UNCHANGED <<websocket, reconnectTimers, realtimeEvents, consoleErrors, wsCalls,
                 lastDelay, requestVars>>

\* The socket of this.websocket closes: the connection failed (onerror, which
\* rejects the promise, then onclose) or an open connection was lost.
SocketCloses ==
  /\ websocket \in {"connecting", "open"}
  /\ websocket' = "closed"
  /\ scheduleReconnect
  /\ UNCHANGED <<detached, realtimeEvents, wsCalls, requestVars>>

\* A socket that this.websocket no longer refers to closes.
DetachedCloses(state) ==
  /\ detached[state] > 0
  /\ detached' = [detached EXCEPT ![state] = @ - 1]
  /\ scheduleReconnect
  /\ UNCHANGED <<websocket, realtimeEvents, wsCalls, requestVars>>

\* An open socket receives a message that parses (lines 209-216).
SocketMessage(type) ==
  /\ websocket = "open" \/ detached.open > 0
  /\ Len(realtimeEvents) < MaxWsMessages
  /\ realtimeEvents' = Append(realtimeEvents, handleWebSocketMessage(type))
  /\ UNCHANGED <<websocket, detached, reconnectAttempts, reconnectTimers,
                 consoleErrors, wsCalls, sinceOpen, lastDelay, requestVars>>

\* A timer of scheduleReconnect fires (lines 242-245).
ReconnectTimerFires(i) ==
  /\ i \in 1..Len(reconnectTimers)
  /\ reconnectTimers[i] = 0
  /\ reconnectTimers' = SelectSeq([j \in 1..Len(reconnectTimers) |->
                                     IF j = i THEN -1 ELSE reconnectTimers[j]],
                                  LAMBDA t : t >= 0)
  /\ connectWebSocket
  /\ UNCHANGED <<reconnectAttempts, realtimeEvents, consoleErrors, wsCalls,
                 sinceOpen, lastDelay, requestVars>>

\* A second passes; a timer that is due fires first.
SecondPasses ==
  /\ reconnectTimers # <<>>
  /\ \A i \in 1..Len(reconnectTimers) : reconnectTimers[i] > 0
  /\ reconnectTimers' = [i \in 1..Len(reconnectTimers) |-> reconnectTimers[i] - Second]
  /\ UNCHANGED <<websocket, detached, reconnectAttempts, realtimeEvents,
                 consoleErrors, wsCalls, sinceOpen, lastDelay, requestVars>>

\* The finally block of logout() (lines 288-295): close() starts the closing
\* handshake of a live socket, whose onclose runs later.
Logout ==
  /\ token' = "none"
  /\ websocket' = "none"
  /\ detached' = IF websocket \in {"connecting", "open"}
                   THEN [detached EXCEPT !.closing = @ + 1]
                   ELSE detached
  /\ UNCHANGED <<circuitBreaker, cache, metrics, authEvents, serverVer, req, last,
                 calls, ticks, streak, staleKeys>>
  /\ UNCHANGED <<reconnectAttempts, reconnectTimers, realtimeEvents, consoleErrors,
                 wsCalls, sinceOpen, lastDelay>>

RealtimeInit ==
  /\ AfterCalls(0, FALSE)
  /\ RealtimeConstructed
  /\ CameraConstructed
  /\ LadderUnused
  /\ DetectionConstructed
  /\ AlertsUnused
  /\ LegacyUnused

SocketStates == {"connecting", "open", "closing"}

RealtimeNext ==
  \/ ConnectCall /\ UNCHANGED outsideRealtime
  \/ SocketOpens /\ UNCHANGED outsideRealtime
  \/ DetachedOpens /\ UNCHANGED outsideRealtime
  \/ SocketCloses /\ UNCHANGED outsideRealtime
  \/ \E state \in SocketStates : DetachedCloses(state) /\ UNCHANGED outsideRealtime
  \/ \E type \in MessageTypes : SocketMessage(type) /\ UNCHANGED outsideRealtime
  \/ \E i \in 1..Len(reconnectTimers) :
       ReconnectTimerFires(i) /\ UNCHANGED outsideRealtime
  \/ SecondPasses /\ UNCHANGED outsideRealtime
  \/ Logout /\ UNCHANGED outsideRealtime

RealtimeSpec == RealtimeInit /\ [][RealtimeNext]_vars

\* ------------------------------------------------- claims on the channel
\* Sockets whose handlers can still run:
LiveSockets ==
  (IF websocket \in {"connecting", "open"} THEN 1 ELSE 0)
    + detached.connecting + detached.open + detached.closing

OpenSockets == (IF websocket = "open" THEN 1 ELSE 0) + detached.open

\* A step in which a socket closes (its onclose runs):
ChannelCloses == LiveSockets' < LiveSockets

\* A step in which a socket opens (its onopen runs):
ChannelOpens == OpenSockets' > OpenSockets

\* The timers a step has armed:
ArmedDelays ==
  IF Len(reconnectTimers') > Len(reconnectTimers)
    THEN {reconnectTimers'[i] : i \in Len(reconnectTimers) + 1..Len(reconnectTimers')}
    ELSE {}

\* C11: a close of the channel schedules one reconnect, after
\* min(1 s * 2^n, 30 s) where n is the number of reconnects scheduled since
\* the last successful open (the attempt number the code logs), as long as
\* n < 10; after 10 such attempts a close schedules nothing; and a successful
\* open sets the attempt count to 0.
C11_BackoffCappedAndBounded ==
  [][/\ ChannelCloses =>
          /\ Len(reconnectTimers') = Len(reconnectTimers) + (IF sinceOpen < 10 THEN 1 ELSE 0)
          /\ ArmedDelays \subseteq {Min(1000 * Pow2(sinceOpen), 30000)}
          /\ sinceOpen' = sinceOpen + (IF sinceOpen < 10 THEN 1 ELSE 0)
     /\ sinceOpen' <= 10
     /\ ~ChannelCloses => Len(reconnectTimers') <= Len(reconnectTimers)
     /\ ChannelOpens => reconnectAttempts' = 0]_vars

\* Ten reconnects with the delay at its cap were used up, the client gave up,
\* and the channel that was then connected again opened with the count at 0.
C11_Witness ==
  /\ consoleErrors = 1
  /\ lastDelay = 30000
  /\ websocket = "open"
  /\ reconnectAttempts = 0
  /\ sinceOpen = 0

\* What the application can observe of the service: the events dispatched on
\* window and the fields of getMetrics().
Surface ==
  <<realtimeEvents, authEvents, metrics, circuitBreaker.state, websocketConnected>>

\* C12: the step in which the client gives up reconnecting (the channel
\* closes with 10 attempts used up) changes something the application can
\* observe: an event is dispatched or a field of getMetrics() changes.
C12_GiveUpIsSignalled ==
  [][(ChannelCloses /\ reconnectAttempts >= 10) => Surface' # Surface]_vars


\* ================================================================
\* ProductionCameraService: discovery, connect, disconnect, stream end,
\* device monitoring and dispose.
\* ================================================================
\* this.activeStreams, a Map: has, get (0 for undefined), set, delete
StreamsHas(as, d) == \E i \in 1..Len(as) : as[i].cameraId = d

StreamsGet(as, d) ==
  IF StreamsHas(as, d) THEN as[CHOOSE i \in 1..Len(as) : as[i].cameraId = d].conn ELSE 0

StreamsSet(as, d, conn) ==
  IF StreamsHas(as, d)
    THEN [i \in 1..Len(as) |-> IF as[i].cameraId = d THEN [as[i] EXCEPT !.conn = conn]
                                                      ELSE as[i]]
    ELSE Append(as, [cameraId |-> d, conn |-> conn])

StreamsDelete(as, d) == SelectSeq(as, LAMBDA e : e.cameraId # d)

\* The part of the service's state that the teardown routines work on
Maps ==
  [activeStreams |-> activeStreams, connectionStatus |-> connectionStatus,
   connectedCameras |-> connectedCameras, streams |-> streams,
   notices |-> notices, lastNotice |-> lastNotice, threw |-> {}]

Becomes(m) ==
  /\ activeStreams' = m.activeStreams
  /\ connectionStatus' = m.connectionStatus
  /\ connectedCameras' = m.connectedCameras
  /\ streams' = m.streams
  /\ notices' = m.notices
  /\ lastNotice' = m.lastNotice

\* notifyStatusChange (lines 530-544): every registered callback gets the event
notifyStatusChange(m, d, status) ==
  IF statusCallbacks > 0
    THEN [m EXCEPT !.notices = @ + 1,
                   !.lastNotice = [cameraId |-> d, status |-> status]]
    ELSE m

\* camera.status = 'available' on the descriptor the table holds, if any
MarkAvailable(cc, d) == [cc EXCEPT ![d] = IF @ = "absent" THEN @ ELSE "available"]

\* track.stop() on every track of a stream: a live track becomes stopped
StopTracks(ss, id) == [ss EXCEPT ![id].state = IF @ = "live" THEN "stopped" ELSE @]

\* A disconnect without the early return for a device that has no connection
disconnectCameraUnguarded(m, d, throws) ==
  LET conn == StreamsGet(m.activeStreams, d)
  IN  IF throws THEN [m EXCEPT !.threw = @ \cup {d}]
      ELSE notifyStatusChange(
             [m EXCEPT !.streams = IF conn = 0 THEN @ ELSE StopTracks(@, conn),
                       !.activeStreams = StreamsDelete(@, d),
                       !.connectionStatus[d] = "disconnected",
                       !.connectedCameras = MarkAvailable(@, d)],
             d, "disconnected")

\* disconnectCamera (lines 369-404).  throws: track.stop() throws, and the
\* catch block reports the error.
disconnectCamera(m, d, throws) ==
  LET conn == StreamsGet(m.activeStreams, d)
  IN  IF conn = 0 THEN m
      ELSE IF throws THEN [m EXCEPT !.threw = @ \cup {d}]
      ELSE notifyStatusChange(
             [m EXCEPT !.streams = StopTracks(@, conn),
                       !.activeStreams = StreamsDelete(@, d),
                       !.connectionStatus[d] = "disconnected",
                       !.connectedCameras = MarkAvailable(@, d)],
             d, "disconnected")

\* handleStreamEnd (lines 417-432)
handleStreamEnd(m, d) ==
  notifyStatusChange(
    [m EXCEPT !.activeStreams = StreamsDelete(@, d),
              !.connectionStatus[d] = "disconnected",
              !.connectedCameras = MarkAvailable(@, d)],
    d, "stream_ended")

\* The descriptor of device d in the table was replaced or removed: a pending
\* connectToCamera call that read it at line 264 holds an object that the
\* table no longer holds.
Dropped(cs, ds) ==
  [c \in Connectors |->
     IF cs[c].pc # "idle" /\ cs[c].device \in ds /\ cs[c].camera = "held"
       THEN [cs[c] EXCEPT !.camera = "dropped"]
       ELSE cs[c]]

Called(op, d) ==
  /\ camCalls < MaxCameraCalls
  /\ camCalls' = camCalls + 1
  /\ camCall' = [op |-> op, device |-> d]

Returned(conn) == camLast' = [res |-> "returned", conn |-> conn]

Threw == camLast' = [res |-> "threw", conn |-> 0]

\* connectToCamera is called (lines 248-273), up to its return, its throw or
\* the getUserMedia() call it awaits.
ConnectToCamera(c, d) ==
  /\ connecting[c].pc = "idle"
  /\ Called("connectToCamera", d)
  /\ teardownThrew' = {}
  /\ UNCHANGED <<probeStreams, deviceCapabilities, streams, statusCallbacks, monitors, isInitialized,
                 discovering, disposed, activeStreams, connectedCameras>>
  /\ IF connectedCameras[d] = "absent"
       THEN LET m == notifyStatusChange([Maps EXCEPT !.connectionStatus[d] = "failed"],
                                        d, "failed")
            IN  /\ connectionStatus' = m.connectionStatus
                /\ notices' = m.notices
                /\ lastNotice' = m.lastNotice
                /\ Threw
                /\ UNCHANGED connecting
       ELSE IF StreamsHas(activeStreams, d)
         THEN /\ Returned(StreamsGet(activeStreams, d))
              /\ UNCHANGED <<connectionStatus, notices, lastNotice, connecting>>
         ELSE LET m == notifyStatusChange(
                         [Maps EXCEPT !.connectionStatus[d] = "connecting"],
                         d, "connecting")
              IN  /\ connectionStatus' = m.connectionStatus
                  /\ notices' = m.notices
                  /\ lastNotice' = m.lastNotice
                  /\ connecting' = [connecting EXCEPT ![c] =
                       [pc |-> "getUserMedia", device |-> d, camera |-> "held"]]
                  /\ UNCHANGED camLast

\* getUserMedia() resolves with a stream that has a video track (lines 275-323).
StreamResolves(c) ==
  LET d  == connecting[c].device
      id == Len(streams) + 1
      m  == notifyStatusChange(
              [Maps EXCEPT !.streams = Append(@, [device |-> d, state |-> "live"]),
                           !.activeStreams = StreamsSet(@, d, id),
                           !.connectionStatus[d] = "connected",
                           !.connectedCameras[d] =
                              IF connecting[c].camera = "held" THEN "online" ELSE @],
              d, "connected")
  IN  /\ connecting[c].pc = "getUserMedia"
      /\ Becomes(m)
      /\ connecting' = [connecting EXCEPT ![c] = NotConnecting]
      /\ Returned(id)
      /\ UNCHANGED <<probeStreams, deviceCapabilities, statusCallbacks, monitors, isInitialized,
                     discovering, camCalls, camCall, teardownThrew, disposed>>

\* getUserMedia() rejects: the catch block (lines 324-330).
StreamRejects(c) ==
  LET d == connecting[c].device
      m == notifyStatusChange([Maps EXCEPT !.connectionStatus[d] = "failed"], d, "failed")
  IN  /\ connecting[c].pc = "getUserMedia"
      /\ Becomes(m)
      /\ connecting' = [connecting EXCEPT ![c] = NotConnecting]
      /\ Threw
      /\ UNCHANGED <<probeStreams, deviceCapabilities, statusCallbacks, monitors, isInitialized,
                     discovering, camCalls, camCall, teardownThrew, disposed>>

\* disconnectCamera is called.  It has no await: it runs to its end.
DisconnectCamera(d, throws) ==
  LET m == disconnectCamera(Maps, d, throws)
  IN  /\ throws => StreamsHas(activeStreams, d)
      /\ Called("disconnectCamera", d)
      /\ Becomes(m)
      /\ teardownThrew' = m.threw
      /\ Returned(0)
      /\ UNCHANGED <<probeStreams, deviceCapabilities, statusCallbacks, monitors, isInitialized,
                     connecting, discovering, disposed>>

\* The source of a stream's video track ends (the device is unplugged, the
\* permission revoked): the 'ended' listener of lines 315-318 runs.
TrackEnded(id) ==
  LET m == handleStreamEnd([Maps EXCEPT !.streams[id].state = "ended"],
                           streams[id].device)
  IN  /\ id \in 1..Len(streams)
      /\ streams[id].state = "live"
      /\ Becomes(m)
      /\ UNCHANGED <<probeStreams, deviceCapabilities, statusCallbacks, monitors, isInitialized,
                     connecting, discovering, camCalls, camCall, camLast,
                     teardownThrew, disposed>>

\* refreshDevices() is called: discoverDevices up to its first await,
\* enumerateDevices() (lines 592-600, 94-98).
RefreshDevices(k) ==
  /\ discovering[k].pc = "idle"
  /\ Called("refreshDevices", 0)
  /\ discovering' = [discovering EXCEPT ![k] =
       [pc |-> "enumerate", by |-> "refresh", queue |-> <<>>]]
  /\ teardownThrew' = {}
  /\ UNCHANGED <<probeStreams, connectedCameras, deviceCapabilities, connectionStatus, activeStreams,
                 streams, statusCallbacks, monitors, isInitialized, connecting,
                 notices, lastNotice, camLast, disposed>>

\* The host reports a 'devicechange' and a registered listener runs
\* discoverDevices (lines 488-491).
DeviceChange(k) ==
  /\ monitors > 0
  /\ discovering[k].pc = "idle"
  /\ discovering' = [discovering EXCEPT ![k] =
       [pc |-> "enumerate", by |-> "devicechange", queue |-> <<>>]]
  /\ UNCHANGED <<probeStreams, connectedCameras, deviceCapabilities, connectionStatus, activeStreams,
                 streams, statusCallbacks, monitors, isInitialized, connecting,
                 notices, lastNotice, camCalls, camCall, camLast, teardownThrew,
                 disposed>>

\* The video input devices, in the order enumerateDevices() lists them
VideoDevices == [i \in 1..NumDevices |-> i]

\* enumerateDevices() resolves: the table is cleared (lines 104-105) and the
\* first device is processed up to the getUserMedia() call of its probe.
Enumerated(k) ==
  /\ discovering[k].pc = "enumerate"
  /\ connectedCameras' = [d \in Devices |-> "absent"]
  /\ deviceCapabilities' = [d \in Devices |-> "absent"]
  /\ connecting' = Dropped(connecting, Devices)
  /\ discovering' = [discovering EXCEPT ![k].pc = "probe", ![k].queue = VideoDevices]
  /\ UNCHANGED <<probeStreams, connectionStatus, activeStreams, streams, statusCallbacks, monitors,
                 isInitialized, notices, lastNotice, camCalls, camCall, camLast,
                 teardownThrew, disposed>>

\* enumerateDevices() rejects: discoverDevices rethrows (lines 113-116).
EnumerateFails(k) ==
  /\ discovering[k].pc = "enumerate"
  /\ discovering' = [discovering EXCEPT ![k] = NotDiscovering]
  /\ IF discovering[k].by = "refresh" THEN Threw ELSE UNCHANGED camLast
  /\ UNCHANGED <<probeStreams, connectedCameras, deviceCapabilities, connectionStatus, activeStreams,
                 streams, statusCallbacks, monitors, isInitialized, connecting,
                 notices, lastNotice, camCalls, camCall, teardownThrew, disposed>>

\* How the getUserMedia() call of getDeviceCapabilities and the reading of
\* the stream it opened can end: the call rejects; the stream is read and
\* its tracks are stopped (lines 160-169); the stream is opened and reading
\* it throws, as when it has no video track or getCapabilities() throws.
ProbeOutcomes == {"rejected", "read", "unreadable"}

\* getDeviceCapabilities (lines 153-175) from the moment its getUserMedia()
\* call settles.  The catch block (lines 171-174) returns {} and stops no
\* track: a stream that was opened and could not be read stays live.
getDeviceCapabilities(open, d, outcome) ==
  [capabilities |-> IF outcome = "read" THEN "probed" ELSE "empty",
   open         |-> IF outcome = "unreadable" THEN open \cup {d} ELSE open]

\* The getUserMedia() call of getDeviceCapabilities settles.  processDevice
\* then writes the device's entries (lines 143-145) and the pass goes on to
\* the next device.
Probed(k, outcome) ==
  LET d     == Head(discovering[k].queue)
      rest  == Tail(discovering[k].queue)
      probe == getDeviceCapabilities(probeStreams, d, outcome)
  IN  /\ discovering[k].pc = "probe"
      /\ connectedCameras' = [connectedCameras EXCEPT ![d] = "available"]
      /\ deviceCapabilities' = [deviceCapabilities EXCEPT ![d] = probe.capabilities]
      /\ probeStreams' = probe.open
      /\ connectionStatus' = [connectionStatus EXCEPT ![d] = "disconnected"]
      /\ connecting' = Dropped(connecting, {d})
      /\ discovering' = [discovering EXCEPT ![k] =
           IF rest = <<>> THEN NotDiscovering ELSE [@ EXCEPT !.queue = rest]]
      /\ IF rest = <<>> /\ discovering[k].by = "refresh"
           THEN Returned(0)
           ELSE UNCHANGED camLast
      /\ UNCHANGED <<activeStreams, streams, statusCallbacks, monitors, isInitialized,
                     notices, lastNotice, camCalls, camCall, teardownThrew, disposed>>

\* startDeviceMonitoring (lines 482-494) adds a listener, a new arrow function.
StartDeviceMonitoring ==
  /\ Called("startDeviceMonitoring", 0)
  /\ monitors' = monitors + 1
  /\ teardownThrew' = {}
  /\ Returned(0)
  /\ UNCHANGED <<probeStreams, connectedCameras, deviceCapabilities, connectionStatus, activeStreams,
                 streams, statusCallbacks, isInitialized, connecting, discovering,
                 notices, lastNotice, disposed>>

\* stopDeviceMonitoring (lines 496-500) removes this.handleDeviceChange, a
\* property that is never assigned: no registered listener is removed.
stopDeviceMonitoring(n) == n

\* A teardown of all cameras that ends with the first one that throws
RECURSIVE disconnectAllUntilThrow(_, _, _)
disconnectAllUntilThrow(m, keys, faulty) ==
  IF keys = <<>> THEN m
  ELSE IF Head(keys) \in faulty THEN disconnectCamera(m, Head(keys), TRUE)
  ELSE disconnectAllUntilThrow(disconnectCamera(m, Head(keys), FALSE), Tail(keys), faulty)

\* disconnectAllCameras (lines 406-415): disconnectCamera runs to its end for
\* each key, one after the other, inside the map() call.
RECURSIVE disconnectAllCameras(_, _, _)
disconnectAllCameras(m, keys, faulty) ==
  IF keys = <<>> THEN m
  ELSE disconnectAllCameras(disconnectCamera(m, Head(keys), Head(keys) \in faulty),
                            Tail(keys), faulty)

ConnectedIds == {activeStreams[i].cameraId : i \in 1..Len(activeStreams)}

\* dispose (lines 603-622).  faulty: the cameras whose track.stop() throws.
Dispose(faulty) ==
  LET keys == [i \in 1..Len(activeStreams) |-> activeStreams[i].cameraId]
      m    == disconnectAllCameras(Maps, keys, faulty)
  IN  /\ faulty \subseteq ConnectedIds
      /\ Called("dispose", 0)
      /\ streams' = m.streams
      /\ notices' = m.notices
      /\ lastNotice' = m.lastNotice
      /\ teardownThrew' = m.threw
      /\ monitors' = stopDeviceMonitoring(monitors)
      /\ connectedCameras' = [d \in Devices |-> "absent"]
      /\ activeStreams' = <<>>
      /\ deviceCapabilities' = [d \in Devices |-> "absent"]
      /\ connectionStatus' = [d \in Devices |-> "unset"]
      /\ statusCallbacks' = 0
      /\ isInitialized' = FALSE
      /\ connecting' = Dropped(connecting, Devices)
      /\ disposed' = TRUE
      /\ Returned(0)
      /\ UNCHANGED <<discovering, probeStreams>>

\* The service after initialize() has succeeded (lines 14-39: the permission
\* request, then a discovery pass whose probes all succeeded) and the camera
\* manager component has registered its status callback.
CameraInit ==
  /\ AfterCalls(0, FALSE)
  /\ RealtimeConstructed
  /\ LadderUnused
  /\ DetectionConstructed
  /\ AlertsUnused
  /\ LegacyUnused
  /\ connectedCameras = [d \in Devices |-> "available"]
  /\ deviceCapabilities = [d \in Devices |-> "probed"]
  /\ connectionStatus = [d \in Devices |-> "disconnected"]
  /\ activeStreams = <<>>
  /\ streams = <<>>
  /\ probeStreams = {}
  /\ statusCallbacks = 1
  /\ monitors = 0
  /\ isInitialized = TRUE
  /\ connecting = [c \in Connectors |-> NotConnecting]
  /\ discovering = [k \in Discoverers |-> NotDiscovering]
  /\ notices = 0
  /\ lastNotice = NoNotice
  /\ camCalls = 0
  /\ camCall = [op |-> "initialize", device |-> 0]
  /\ camLast = [res |-> "returned", conn |-> 0]
  /\ teardownThrew = {}
  /\ disposed = FALSE

CameraNext ==
  \/ \E c \in Connectors, d \in Devices : ConnectToCamera(c, d) /\ UNCHANGED outsideCamera
  \/ \E c \in Connectors : StreamResolves(c) /\ UNCHANGED outsideCamera
  \/ \E c \in Connectors : StreamRejects(c) /\ UNCHANGED outsideCamera
  \/ \E d \in Devices, throws \in BOOLEAN :
       DisconnectCamera(d, throws) /\ UNCHANGED outsideCamera
  \/ \E id \in 1..Len(streams) : TrackEnded(id) /\ UNCHANGED outsideCamera
  \/ \E k \in Discoverers : RefreshDevices(k) /\ UNCHANGED outsideCamera
  \/ \E k \in Discoverers : DeviceChange(k) /\ UNCHANGED outsideCamera
  \/ \E k \in Discoverers : Enumerated(k) /\ UNCHANGED outsideCamera
  \/ \E k \in Discoverers : EnumerateFails(k) /\ UNCHANGED outsideCamera
  \/ \E k \in Discoverers, outcome \in ProbeOutcomes :
       Probed(k, outcome) /\ UNCHANGED outsideCamera
  \/ StartDeviceMonitoring /\ UNCHANGED outsideCamera
  \/ \E faulty \in SUBSET Devices : Dispose(faulty) /\ UNCHANGED outsideCamera

CameraSpec == CameraInit /\ [][CameraNext]_vars

\* ------------------------------------------- claims on the camera service
\* A step in which the method op is called for device d:
MethodCalled(op, d) ==
  /\ camCalls' = camCalls + 1
  /\ camCall' = [op |-> op, device |-> d]

\* The maps, the streams and the notifications of the service:
ServiceState ==
  <<connectedCameras, deviceCapabilities, connectionStatus, activeStreams, streams,
    statusCallbacks, monitors, isInitialized, notices, lastNotice>>

\* The streams of device d whose track is live:
OpenStreams(ss, d) == {id \in 1..Len(ss) : ss[id].device = d /\ ss[id].state = "live"}

\* C13: connectToCamera for a device that has a connection returns that very
\* Connection, calls getUserMedia() for nobody, changes no status and
\* delivers no notification.
C13_ConnectReturnsExisting ==
  [][\A d \in Devices :
       (MethodCalled("connectToCamera", d) /\ StreamsHas(activeStreams, d)) =>
          /\ camLast' = [res |-> "returned", conn |-> StreamsGet(activeStreams, d)]
          /\ UNCHANGED <<connecting, ServiceState>>]_vars

\* C14: at every moment each device has at most one open stream that
\* connectToCamera opened.
C14_OneOpenStreamPerDevice ==
  \A d \in Devices : Cardinality(OpenStreams(streams, d)) <= 1

\* A step in which the track of the stream of d's connection ends:
ConnectionTrackEnds(d) ==
  /\ StreamsHas(activeStreams, d)
  /\ streams[StreamsGet(activeStreams, d)].state = "live"
  /\ streams'[StreamsGet(activeStreams, d)].state = "ended"

\* C15: a track-ended event for the stream of d's connection leaves the
\* service as disconnectCamera(d) would have left it from the same state: no
\* map entry, status disconnected, descriptor available, no live track on the
\* stream, and the same status event delivered.
C15_StreamEndEqualsDisconnect ==
  [][\A d \in Devices :
       ConnectionTrackEnds(d) =>
          LET same == disconnectCamera(Maps, d, FALSE)
          IN  /\ ~StreamsHas(activeStreams', d)
              /\ activeStreams' = same.activeStreams
              /\ connectionStatus'[d] = "disconnected"
              /\ connectionStatus' = same.connectionStatus
              /\ connectedCameras' = same.connectedCameras
              /\ OpenStreams(streams', d) = OpenStreams(same.streams, d)
              /\ notices' = same.notices
              /\ lastNotice' = same.lastNotice]_vars

\* C16: disconnectCamera never throws; for a device without a connection it
\* changes nothing, stops nothing and notifies nobody; and a disconnect whose
\* teardown went through leaves the device without a connection, so that a
\* second call in a row is such a call.
C16_DisconnectIdempotent ==
  [][\A d \in Devices :
       MethodCalled("disconnectCamera", d) =>
          /\ camLast'.res = "returned"
          /\ ~StreamsHas(activeStreams, d) => UNCHANGED <<connecting, ServiceState>>
          /\ d \notin teardownThrew' => ~StreamsHas(activeStreams', d)]_vars

\* connectToCamera(1), disconnectCamera(1) twice, and nothing else: one of the
\* disconnects found no connection and the three notifications are those of
\* the connect and of the other disconnect.
C16_Witness ==
  /\ camCalls = 3
  /\ camCall = [op |-> "disconnectCamera", device |-> 1]
  /\ streams = <<[device |-> 1, state |-> "stopped"]>>
  /\ notices = 3
  /\ lastNotice = [cameraId |-> 1, status |-> "disconnected"]
  /\ connectionStatus[1] = "disconnected"

\* C17: once dispose() has run, a 'devicechange' starts no discovery pass, and
\* no pass started by one opens a probe stream or writes the device table.
C17_NoDiscoveryAfterDispose ==
  [][disposed =>
       \A k \in Discoverers :
          /\ ~(discovering[k].pc = "idle" /\ discovering'[k].by = "devicechange")
          /\ discovering[k].by = "devicechange" =>
               /\ discovering'[k].pc # "probe"
               /\ connectedCameras' = connectedCameras]_vars

\* C18: dispose() stops the tracks of every connected camera whose own
\* track.stop() does not throw, whichever others throw; it leaves the device,
\* connection, capability and status maps empty; and called on a service it
\* has just cleared it changes nothing and returns.
C18_DisposeTearsDownAll ==
  [][MethodCalled("dispose", 0) =>
       /\ \A d \in ConnectedIds \ teardownThrew' :
            streams'[StreamsGet(activeStreams, d)].state # "live"
       /\ teardownThrew' \subseteq ConnectedIds
       /\ MapsCleared'
       /\ camLast'.res = "returned"
       /\ MapsCleared => UNCHANGED <<connecting, discovering, ServiceState>>]_vars

\* A dispose() with two cameras connected, the teardown of the first of which
\* threw: the stream of the second is stopped all the same.
C18_Witness ==
  /\ camCall = [op |-> "dispose", device |-> 0]
  /\ teardownThrew = {1}
  /\ streams = <<[device |-> 1, state |-> "live"], [device |-> 2, state |-> "stopped"]>>
  /\ MapsCleared


\* ================================================================
\* The resolutions offered for a device: extractResolutions of
\* ProductionCameraService and getResolutionOptions of
\* CameraDiscoveryService.
\* ================================================================
\* The envelopes a probe may read: width and height are objects or missing,
\* and their max is a number or (0) missing.
CapWidths == {0, 320, 640, 854, 1280, 1920, 2560, 3840, 4096}
CapHeights == {0, 240, 480, 720, 1080, 1440, 2160}

Envelopes ==
  {[hasWidth |-> hw, widthMax |-> IF hw THEN w ELSE 0,
    hasHeight |-> hh, heightMax |-> IF hh THEN h ELSE 0] :
     hw \in BOOLEAN, hh \in BOOLEAN, w \in CapWidths, h \in CapHeights}

\* `${res.width}x${res.height}`
ResolutionLabel(w, h) == ToString(w) \o "x" \o ToString(h)

standardResolutions ==
  <<[width |-> 3840, height |-> 2160], [width |-> 2560, height |-> 1440],
    [width |-> 1920, height |-> 1080], [width |-> 1280, height |-> 720],
    [width |-> 854, height |-> 480], [width |-> 640, height |-> 480]>>

\* x || fallback, for a number x
OrElse(x, fallback) == IF x = 0 THEN fallback ELSE x

\* extractResolutions (productionCameraService.js lines 177-202)
extractResolutions(cap) ==
  LET maxWidth  == OrElse(cap.widthMax, 1920)
      maxHeight == OrElse(cap.heightMax, 1080)
      fits      == SelectSeq(standardResolutions,
                             LAMBDA res : res.width <= maxWidth /\ res.height <= maxHeight)
      found     == IF cap.hasWidth /\ cap.hasHeight
                     THEN [i \in 1..Len(fits) |->
                             ResolutionLabel(fits[i].width, fits[i].height)]
                     ELSE <<>>
  IN  IF Len(found) > 0 THEN found ELSE <<"1920x1080">>

\* getResolutionOptions (part_010 lines 72-82)
getResolutionOptions(cap) ==
  LET maxWidth == OrElse(cap.widthMax, 1920)
  IN  (IF maxWidth >= 3840 THEN <<"3840x2160">> ELSE <<>>)
        \o (IF maxWidth >= 1920 THEN <<"1920x1080">> ELSE <<>>)
        \o (IF maxWidth >= 1280 THEN <<"1280x720">> ELSE <<>>)
        \o <<"640x480">>

\* processDevice derives the resolutions of the device it has probed (line 136).
ProcessDevice ==
  /\ resolutions = Underived
  /\ resolutions' = extractResolutions(capabilities)
  /\ UNCHANGED <<capabilities, resolutionOptions>>

\* discoverDeviceCameras derives them when the envelope has a width
\* (part_010 line 27).
DiscoverDeviceCameras ==
  /\ resolutionOptions = Underived
  /\ resolutionOptions' = IF capabilities.hasWidth
                            THEN getResolutionOptions(capabilities)
                            ELSE <<"1920x1080">>
  /\ UNCHANGED <<capabilities, resolutions>>

LadderInit ==
  /\ AfterCalls(0, FALSE)
  /\ RealtimeConstructed
  /\ CameraConstructed
  /\ DetectionConstructed
  /\ AlertsUnused
  /\ LegacyUnused
  /\ capabilities \in Envelopes
  /\ resolutions = Underived
  /\ resolutionOptions = Underived

LadderNext ==
  \/ ProcessDevice /\ UNCHANGED outsideLadder
  \/ DiscoverDeviceCameras /\ UNCHANGED outsideLadder

LadderSpec == LadderInit /\ [][LadderNext]_vars

\* ------------------------------------------------- claim on the ladder
Offers(list, label) == \E i \in 1..Len(list) : list[i] = label

\* The ladder the device table documents, for a list derived from an envelope:
Reports(cap) ==
  cap.hasWidth /\ cap.hasHeight /\ cap.widthMax > 0 /\ cap.heightMax > 0

Ladder(list, cap) ==
  Reports(cap) =>
    /\ Offers(list, "3840x2160") <=> cap.widthMax >= 3840
    /\ Offers(list, "2560x1440") <=> cap.widthMax >= 2560
    /\ Offers(list, "1920x1080") <=> cap.widthMax >= 1920
    /\ Offers(list, "1280x720") <=> cap.widthMax >= 1280
    /\ Offers(list, "640x480")
    /\ (cap.widthMax = 1920 /\ cap.heightMax = 1080) =>
          list = <<"1920x1080", "1280x720", "640x480">>

\* C19: the resolutions derived from a capability envelope that reports its
\* maximum width and height hold 3840x2160,
\* 2560x1440, 1920x1080 and 1280x720 exactly when the envelope's max width
\* reaches that width, and always 640x480; an envelope of max 1920x1080
\* yields exactly 1920x1080, 1280x720, 640x480.
C19_ResolutionLadder ==
  /\ resolutions # Underived => Ladder(resolutions, capabilities)
  /\ resolutionOptions # Underived => Ladder(resolutionOptions, capabilities)


\* ================================================================
\* RealTimeDetectionService (src/src/services/realTimeDetection.js): the
\* recurring timer of startDetection, processFrame and its awaits.
\* Time is counted in steps of the timer's period.
\* ================================================================
\* The results AdvancedDetectionService.processFrame may resolve to: the keys
\* of results.alerts, in order
AlertLists ==
  UNION {[1..n -> AlertKeys] : n \in 0..MaxAlerts}

Older(age) == Min(age + framePeriod, cooldownPeriod)

\* now - lastAlertTime < this.cooldownPeriod (lines 157-161)
InCooldown(cooldowns, key) == cooldowns[key] < cooldownPeriod

\* The candidates of the for loop that are left once those in cooldown have
\* been skipped (lines 155-164)
RECURSIVE SkipCooling(_, _)
SkipCooling(cooldowns, alerts) ==
  IF alerts = <<>> THEN <<>>
  ELSE IF InCooldown(cooldowns, Head(alerts)) THEN SkipCooling(cooldowns, Tail(alerts))
  ELSE alerts

InFlight == {c \in Cycles : cycles[c].pc # "idle"}
FreeCycle == CHOOSE c \in Cycles \ InFlight : \A d \in Cycles \ InFlight : c <= d

\* The end of a call of processFrame that leaves the mid-flight flag alone
CycleEndsFlagLeft(c) ==
  /\ UNCHANGED isProcessing
  /\ cycles' = [cycles EXCEPT ![c] = NoCycle]

\* The finally of processFrame (lines 109-111): the call c is over
CycleEnds(c) ==
  /\ isProcessing' = FALSE
  /\ cycles' = [cycles EXCEPT ![c] = NoCycle]

\* handleDetectionResults runs its loop over `alerts` up to its next await
\* (line 179) or to its end
LoopRuns(c, alerts) ==
  LET left == SkipCooling(alertCooldowns, alerts)
  IN  IF left = <<>>
        THEN CycleEnds(c)
        ELSE /\ cycles' = [cycles EXCEPT ![c] =
                              [pc |-> "creatingAlert", alerts |-> left, sinceNow |-> 0]]
             /\ UNCHANGED isProcessing

\* startDetection(videoElement), lines 40-67
StartDetection(hasStream) ==
  /\ detCalls < MaxDetCalls
  /\ detCalls' = detCalls + 1
  /\ IF isActive
       THEN /\ detLast' = [op |-> "startDetection", res |-> "returned"]
            /\ UNCHANGED <<isActive, currentStream, detectionInterval>>
       ELSE IF ~hasStream
         THEN /\ detLast' = [op |-> "startDetection", res |-> "threw"]
              /\ UNCHANGED <<isActive, currentStream, detectionInterval>>
         ELSE /\ detLast' = [op |-> "startDetection", res |-> "returned"]
              /\ isActive' = TRUE
              /\ currentStream' = TRUE
              /\ detectionInterval' = "armed"
  /\ UNCHANGED <<isProcessing, frameCount, alertCooldowns, cycles, persisted, accepted>>

\* stopDetection without its clearTimeout
stopDetectionTimerLeft ==
  IF ~isActive
    THEN UNCHANGED <<isActive, detectionInterval, currentStream, frameCount, isProcessing>>
    ELSE /\ isActive' = FALSE
         /\ currentStream' = FALSE
         /\ frameCount' = 0
         /\ isProcessing' = FALSE
         /\ UNCHANGED detectionInterval

\* The body of stopDetection, lines 69-85
stopDetection ==
  IF ~isActive
    THEN UNCHANGED <<isActive, detectionInterval, currentStream, frameCount, isProcessing>>
    ELSE /\ isActive' = FALSE
         /\ detectionInterval' = "none"
         /\ currentStream' = FALSE
         /\ frameCount' = 0
         /\ isProcessing' = FALSE

StopDetection ==
  /\ detCalls < MaxDetCalls
  /\ detCalls' = detCalls + 1
  /\ stopDetection
  /\ detLast' = [op |-> "stopDetection", res |-> "returned"]
  /\ UNCHANGED <<alertCooldowns, cycles, persisted, accepted>>

\* dispose(), lines 214-224
DisposeDetection ==
  /\ detCalls < MaxDetCalls
  /\ detCalls' = detCalls + 1
  /\ stopDetection
  /\ alertCooldowns' = Unstamped
  /\ detLast' = [op |-> "dispose", res |-> "returned"]
  /\ UNCHANGED <<cycles, persisted, accepted>>

\* One period of the timer elapses.
PeriodElapses ==
  /\ detectionInterval' = IF detectionInterval = "none" THEN "none" ELSE "due"
  /\ alertCooldowns' = [k \in AlertKeys |-> Older(alertCooldowns[k])]
  /\ cycles' = [c \in Cycles |->
                  IF cycles[c].pc \in {"creatingAlert", "loggingAlert"}
                    THEN [cycles[c] EXCEPT !.sinceNow = Older(@)]
                    ELSE cycles[c]]
  /\ accepted' = [k \in AlertKeys |-> Min(accepted[k] + framePeriod, Horizon)]
  /\ UNCHANGED <<isActive, isProcessing, frameCount, currentStream, persisted,
                 detCalls, detLast>>

\* The timer's callback with a frame count that counts the ticks
TimerFiresCountsTicks(captured) ==
  /\ detectionInterval = "due"
  /\ frameCount < MaxFrames
  /\ IF ~isActive
       THEN UNCHANGED <<detectionInterval, isProcessing, frameCount, cycles>>
       ELSE /\ detectionInterval' = "armed"
            /\ frameCount' = frameCount + 1
            /\ IF isProcessing
                 THEN UNCHANGED <<isProcessing, cycles>>
                 ELSE IF captured
                        THEN /\ InFlight # Cycles
                             /\ isProcessing' = TRUE
                             /\ cycles' = [cycles EXCEPT ![FreeCycle].pc = "analyzing"]
                        ELSE UNCHANGED <<isProcessing, cycles>>
  /\ UNCHANGED <<isActive, currentStream, alertCooldowns, persisted, detCalls,
                 detLast, accepted>>

\* The timer's callback (lines 57-62): processFrame up to its first await
\* (lines 87-98), then scheduleNextFrame.  `captured` is whether captureFrame
\* returned a frame.
TimerFires(captured) ==
  /\ detectionInterval = "due"
  /\ frameCount < MaxFrames
  /\ IF ~isActive
       THEN UNCHANGED <<detectionInterval, isProcessing, frameCount, cycles>>
       ELSE /\ detectionInterval' = "armed"
            /\ IF isProcessing
                 THEN UNCHANGED <<isProcessing, frameCount, cycles>>
                 ELSE /\ frameCount' = frameCount + 1
                      /\ IF captured
                           THEN /\ InFlight # Cycles
                                /\ isProcessing' = TRUE
                                /\ cycles' = [cycles EXCEPT ![FreeCycle].pc = "analyzing"]
                           ELSE UNCHANGED <<isProcessing, cycles>>
  /\ UNCHANGED <<isActive, currentStream, alertCooldowns, persisted, detCalls,
                 detLast, accepted>>

\* analyzeFrame settles (line 98): `analysed` is whether it resolved to a
\* result, `alerts` the alerts of that result; processFrame goes on to its
\* next await or to its end (lines 100-111).
AnalysisSettles(c, analysed, alerts) ==
  /\ cycles[c].pc = "analyzing"
  /\ IF analysed /\ Len(alerts) > 0
       THEN LoopRuns(c, alerts)
       ELSE CycleEnds(c)
  /\ UNCHANGED <<isActive, detectionInterval, frameCount, currentStream,
                 alertCooldowns, persisted, detCalls, detLast, accepted>>

\* SupabaseService.createAlert settles (line 179): stamped and on to the log
\* entry, or thrown to the catch of line 198.
CreateAlertSettles(c, stored) ==
  /\ cycles[c].pc = "creatingAlert"
  /\ LET key == Head(cycles[c].alerts)
     IN  IF stored
           THEN /\ persisted[key] < MaxStored
                /\ persisted' = [persisted EXCEPT ![key] = @ + 1]
                /\ accepted' = [accepted EXCEPT ![key] = cycles[c].sinceNow]
                /\ alertCooldowns' = [alertCooldowns EXCEPT ![key] = cycles[c].sinceNow]
                /\ cycles' = [cycles EXCEPT ![c].pc = "loggingAlert"]
                /\ UNCHANGED isProcessing
           ELSE /\ CycleEnds(c)
                /\ UNCHANGED <<persisted, accepted, alertCooldowns>>
  /\ UNCHANGED <<isActive, detectionInterval, frameCount, currentStream, detCalls,
                 detLast>>

\* SupabaseService.createSystemLog settles (line 185): on to the next
\* candidate, or thrown to the catch of line 198.
SystemLogSettles(c, logged) ==
  /\ cycles[c].pc = "loggingAlert"
  /\ IF logged
       THEN LoopRuns(c, Tail(cycles[c].alerts))
       ELSE CycleEnds(c)
  /\ UNCHANGED <<isActive, detectionInterval, frameCount, currentStream,
                 alertCooldowns, persisted, detCalls, detLast, accepted>>

DetectionInit ==
  /\ AfterCalls(0, FALSE)
  /\ RealtimeConstructed
  /\ CameraConstructed
  /\ LadderUnused
  /\ DetectionConstructed
  /\ AlertsUnused
  /\ LegacyUnused

DetectionNext ==
  \/ \E hasStream \in BOOLEAN : StartDetection(hasStream) /\ UNCHANGED outsideDetection
  \/ StopDetection /\ UNCHANGED outsideDetection
  \/ DisposeDetection /\ UNCHANGED outsideDetection
  \/ PeriodElapses /\ UNCHANGED outsideDetection
  \/ \E captured \in BOOLEAN : TimerFires(captured) /\ UNCHANGED outsideDetection
  \/ \E c \in Cycles, analysed \in BOOLEAN, alerts \in AlertLists :
       AnalysisSettles(c, analysed, alerts) /\ UNCHANGED outsideDetection
  \/ \E c \in Cycles, stored \in BOOLEAN :
       CreateAlertSettles(c, stored) /\ UNCHANGED outsideDetection
  \/ \E c \in Cycles, logged \in BOOLEAN :
       SystemLogSettles(c, logged) /\ UNCHANGED outsideDetection

DetectionSpec == DetectionInit /\ [][DetectionNext]_vars

\* ------------------------------------------------- claim on the cycles
\* C20: at most one capture-and-classify cycle is in flight at any time: a
\* cycle starts only when no other cycle is still running, whatever the
\* sequence of startDetection, stopDetection and timer ticks.
C20_NoOverlappingCycles ==
  [][\A c \in Cycles :
       (cycles[c].pc = "idle" /\ cycles'[c].pc # "idle") => InFlight = {}]_vars

\* ------------------------------------------------- claims on the cooldown
Distance(a, b) == IF a >= b THEN a - b ELSE b - a

\* C21: two alerts of the same key that the sampler stores passed the
\* cooldown test at least cooldownPeriod apart.
C21_StoredAlertsCooldownApart ==
  [][\A k \in AlertKeys :
       (persisted[k] > 0 /\ persisted'[k] = persisted[k] + 1)
         => Distance(accepted[k], accepted'[k]) >= cooldownPeriod]_vars

\* C22: a failure to store one accepted alert, or to write its log entry,
\* does not end the cycle: the loop goes on to every remaining candidate, so
\* a cycle ends only when no candidate that passes the cooldown test is left.
C22_FailureKeepsRemainingCandidates ==
  [][\A c \in Cycles :
       (cycles[c].pc \in {"creatingAlert", "loggingAlert"} /\ cycles'[c].pc = "idle")
         => SkipCooling(alertCooldowns', Tail(cycles[c].alerts)) = <<>>]_vars

\* ------------------------------------------------- claims on start and stop
MethodReturns(op) == detCalls' = detCalls + 1 /\ detLast'.op = op

\* What getStatus() and the timer show of the sampler
SamplerState == <<isActive, detectionInterval, currentStream, frameCount, isProcessing>>

\* C23: stopDetection on an active sampler cancels the timer and resets the
\* frame counter, and is a no-op on an inactive one; while the sampler is
\* inactive no timer is pending and no cycle starts.
C23_StopCancelsAndResets ==
  [][/\ MethodReturns("stopDetection") =>
          IF isActive
            THEN ~isActive' /\ detectionInterval' = "none" /\ frameCount' = 0
            ELSE UNCHANGED <<SamplerState, alertCooldowns, cycles>>
     /\ ~isActive' => detectionInterval' = "none"
     /\ ~isActive =>
          \A c \in Cycles : cycles[c].pc = "idle" => cycles'[c].pc = "idle"]_vars

\* stopDetection has returned with a cycle still awaiting, and the timer is gone.
C23_Witness ==
  /\ detLast.op = "stopDetection"
  /\ ~isActive
  /\ InFlight # {}
  /\ detectionInterval = "none"

\* C24: startDetection on an active sampler, or without a stream, throws and
\* leaves the sampler as it was, with no second timer.
C24_StartRejects ==
  [][(MethodReturns("startDetection") /\ (isActive \/ ~isActive'))
       => detLast'.res = "threw" /\ SamplerState' = SamplerState]_vars


\* ================================================================
\* The alerts table behind SupabaseService (src/src/services/supabase.js)
\* and the useSupabaseAlerts hook (src/unnamed/part_004).  A call of
\* SupabaseService runs at the store some time after it is made and its
\* promise settles some time after that; a hook's function has no effect
\* on the hook's state before its first await, so the call and the
\* statement at the store are one action and the continuation is another.
\* ================================================================
username == "operator"

\* The row of alert a as a query or a payload carries it
RowOf(rows, a) ==
  [id |-> a, acknowledged |-> rows[a].acknowledged,
   acknowledged_by |-> rows[a].acknowledged_by,
   acknowledged_at |-> rows[a].acknowledged_at]

Present(rows) == {a \in AlertIds : rows[a].present}

\* .order('created_at', { ascending: false })
RECURSIVE Descending(_, _)
Descending(rows, ids) ==
  IF ids = {} THEN <<>>
  ELSE LET newest == CHOOSE a \in ids : \A b \in ids : b <= a
       IN  <<RowOf(rows, newest)>> \o Descending(rows, ids \ {newest})

\* getAlerts() with no params (supabase.js lines 60-91)
getAlerts(rows) == Descending(rows, Present(rows))

\* The payloads of postgres_changes for the rows `ids` (lines 338-346)
RECURSIVE Changes(_, _, _)
Changes(eventType, rows, ids) ==
  IF ids = {} THEN <<>>
  ELSE LET a == CHOOSE b \in ids : \A c \in ids : b <= c
       IN  <<[eventType |-> eventType, row |-> RowOf(rows, a)]>>
             \o Changes(eventType, rows, ids \ {a})

Room(n) == \A v \in Views : Len(payloads[v]) + n <= MaxPayloads

Broadcast(changes) == payloads' = [v \in Views |-> payloads[v] \o changes]

HookCalled ==
  /\ alertCalls < MaxAlertCalls
  /\ alertCalls' = alertCalls + 1

\* .update({acknowledged: true, ...}) of acknowledgeAlert (lines 114-128)
Acknowledged(row, by) ==
  [row EXCEPT !.acknowledged = TRUE, !.acknowledged_by = by, !.acknowledged_at = "set"]

\* prev.map(alert => alert.id === alertId ? {...alert, acknowledged: true,
\* acknowledged_by, acknowledged_at} : alert) (part_004 lines 71-82); a row
\* has one identifier in the model, its alert_id.
AcknowledgedIn(list, id, by) ==
  [i \in 1..Len(list) |-> IF list[i].id = id THEN Acknowledged(list[i], by) ELSE list[i]]

\* prev.map(alert => alert.id === payload.new.id ? payload.new : alert)
\* (part_004 lines 43-48)
UpdatedIn(list, row) ==
  [i \in 1..Len(list) |-> IF list[i].id = row.id THEN row ELSE list[i]]

\* loadAlerts() (part_004 lines 10-15): the query runs at the store
LoadAlerts(v, ok) ==
  /\ loading[v].pc = "idle"
  /\ HookCalled
  /\ loading' = IF ok
                  THEN [loading EXCEPT ![v] = [pc |-> "answered", data |-> getAlerts(store)]]
                  ELSE loading
  /\ UNCHANGED <<store, created, viewAlerts, acknowledging, clearing, payloads>>

\* setAlerts(data) (part_004 line 15)
LoadResolves(v) ==
  /\ loading[v].pc = "answered"
  /\ viewAlerts' = [viewAlerts EXCEPT ![v] = loading[v].data]
  /\ loading' = [loading EXCEPT ![v] = NotLoading]
  /\ UNCHANGED <<store, created, acknowledging, clearing, payloads, alertCalls>>

\* acknowledgeAlert(alertId, username) for an alert the view lists (part_004
\* lines 66-68): the update runs at the store; .single() makes it an error
\* when the row is gone.
AcknowledgeAlert(v, a, ok) ==
  /\ acknowledging[v].pc = "idle"
  /\ \E i \in 1..Len(viewAlerts[v]) : viewAlerts[v][i].id = a
  /\ HookCalled
  /\ IF ok /\ store[a].present
       THEN /\ Room(1)
            /\ store' = [store EXCEPT ![a] = Acknowledged(@, username)]
            /\ Broadcast(Changes("UPDATE", store', {a}))
            /\ acknowledging' = [acknowledging EXCEPT ![v] = [pc |-> "updated", alert |-> a]]
       ELSE UNCHANGED <<store, payloads, acknowledging>>
  /\ UNCHANGED <<created, viewAlerts, loading, clearing>>

\* The local update of acknowledgeAlert (part_004 lines 70-82)
AcknowledgeResolves(v) ==
  /\ acknowledging[v].pc = "updated"
  /\ viewAlerts' = [viewAlerts EXCEPT ![v] =
                  AcknowledgedIn(@, acknowledging[v].alert, username)]
  /\ acknowledging' = [acknowledging EXCEPT ![v] = NotAcknowledging]
  /\ UNCHANGED <<store, created, loading, clearing, payloads, alertCalls>>

\* clearAllAlerts() (part_004 lines 96-98): the delete runs at the store
ClearAllAlerts(v, ok) ==
  /\ ~clearing[v]
  /\ HookCalled
  /\ IF ok
       THEN /\ Room(Cardinality(Present(store)))
            /\ store' = [a \in AlertIds |-> NoRow]
            /\ Broadcast(Changes("DELETE", store, Present(store)))
            /\ clearing' = [clearing EXCEPT ![v] = TRUE]
       ELSE UNCHANGED <<store, payloads, clearing>>
  /\ UNCHANGED <<created, viewAlerts, loading, acknowledging>>

\* setAlerts([]) (part_004 line 99)
ClearResolves(v) ==
  /\ clearing[v]
  /\ viewAlerts' = [viewAlerts EXCEPT ![v] = <<>>]
  /\ clearing' = [clearing EXCEPT ![v] = FALSE]
  /\ UNCHANGED <<store, created, loading, acknowledging, payloads, alertCalls>>

\* sendTestAlert(username) (part_004 lines 113-127): createAlert inserts the
\* row (supabase.js lines 93-112)
SendTestAlert(v, ok) ==
  /\ HookCalled
  /\ IF ok
       THEN /\ created < NumAlerts
            /\ Room(1)
            /\ created' = created + 1
            /\ store' = [store EXCEPT ![created'] = [NoRow EXCEPT !.present = TRUE]]
            /\ Broadcast(Changes("INSERT", store', {created'}))
       ELSE UNCHANGED <<store, created, payloads>>
  /\ UNCHANGED <<viewAlerts, loading, acknowledging, clearing>>

\* The callback of subscribeToAlerts (part_004 lines 29-54)
PayloadDelivered(v) ==
  /\ payloads[v] # <<>>
  /\ LET payload == Head(payloads[v])
     IN  viewAlerts' = [viewAlerts EXCEPT ![v] =
           CASE payload.eventType = "INSERT" -> <<payload.row>> \o @
             [] payload.eventType = "UPDATE" ->
                  UpdatedIn(@, payload.row)
             [] payload.eventType = "DELETE" ->
                  SelectSeq(@, LAMBDA row : row.id # payload.row.id)]
  /\ Len(viewAlerts'[v]) <= MaxListed
  /\ payloads' = [payloads EXCEPT ![v] = Tail(@)]
  /\ UNCHANGED <<store, created, loading, acknowledging, clearing, alertCalls>>

AlertsInit ==
  /\ AfterCalls(0, FALSE)
  /\ RealtimeConstructed
  /\ CameraConstructed
  /\ LadderUnused
  /\ DetectionConstructed
  /\ AlertsUnused
  /\ LegacyUnused

AlertsNext ==
  \/ \E v \in Views, ok \in BOOLEAN : LoadAlerts(v, ok) /\ UNCHANGED outsideAlerts
  \/ \E v \in Views : LoadResolves(v) /\ UNCHANGED outsideAlerts
  \/ \E v \in Views, a \in AlertIds, ok \in BOOLEAN :
       AcknowledgeAlert(v, a, ok) /\ UNCHANGED outsideAlerts
  \/ \E v \in Views : AcknowledgeResolves(v) /\ UNCHANGED outsideAlerts
  \/ \E v \in Views, ok \in BOOLEAN : ClearAllAlerts(v, ok) /\ UNCHANGED outsideAlerts
  \/ \E v \in Views : ClearResolves(v) /\ UNCHANGED outsideAlerts
  \/ \E v \in Views, ok \in BOOLEAN : SendTestAlert(v, ok) /\ UNCHANGED outsideAlerts
  \/ \E v \in Views : PayloadDelivered(v) /\ UNCHANGED outsideAlerts

AlertsSpec == AlertsInit /\ [][AlertsNext]_vars

\* ------------------------------------------------- claims on the alerts
Listed(list, a) == \E i \in 1..Len(list) : list[i].id = a
ListedAcknowledged(list, a) ==
  \E i \in 1..Len(list) : list[i].id = a /\ list[i].acknowledged

\* C25: an alert that is acknowledged in the store, or in a view's list, is
\* not unacknowledged there later: it stays acknowledged for as long as it is
\* there.
C25_AcknowledgedStays ==
  [][/\ \A a \in AlertIds :
          (store[a].present /\ store[a].acknowledged /\ store'[a].present)
            => store'[a].acknowledged
     /\ \A v \in Views, a \in AlertIds :
          (ListedAcknowledged(viewAlerts[v], a) /\ Listed(viewAlerts'[v], a))
            => ListedAcknowledged(viewAlerts'[v], a)]_vars


\* ------------------------------------------------- further claims on request()
\* A step in which the request() call of p ends in its final failure:
Fails(p) ==
  req[p].pc \in {"fetch", "json"} /\ req'[p].pc = "idle" /\ last'.res = "error"

LimitKey(i) == <<"/alerts", "{limit:" \o ToString(i) \o "}">>

\* The cache after reads with limit 1..n, each answered with data i
Filled(n) == [i \in 1..n |-> [key |-> LimitKey(i), data |-> i, left |-> defaultTTL]]

\* The caches a behaviour starts with: one entry short of the bound, or at it
FillSizes == {maxSize - 1, maxSize}

\* The keys that are read: the two oldest, the newest and two new ones
ReadLimits == {1, 2, maxSize, maxSize + 1, maxSize + 2}

\* request() for a key that has an unexpired entry (lines 41-48)
ReadCached(i) ==
  /\ calls < MaxCalls
  /\ CacheHit(cache, LimitKey(i))
  /\ calls' = calls + 1
  /\ cache' = CacheAfterGet(cache, LimitKey(i))
  /\ metrics' = cacheHitMetrics(metrics)
  /\ last' = Outcome("getAlerts", "hit", Entry(cache, LimitKey(i)).data, NoError, 0, FALSE)
  /\ UNCHANGED <<circuitBreaker, token, authEvents, serverVer, req, ticks, streak,
                 staleKeys>>

\* request() for a key that has no entry, answered by the backend at the
\* first attempt (lines 41-79): setCache stores the payload.
ReadFetched(i) ==
  /\ calls < MaxCalls
  /\ ~CacheHit(cache, LimitKey(i))
  /\ calls' = calls + 1
  /\ cache' = setCache(CacheAfterGet(cache, LimitKey(i)), LimitKey(i), i)
  /\ metrics' = updateMetrics(cacheMissMetrics(metrics), TRUE)
  /\ last' = Outcome("getAlerts", "ok", i, NoError, 1, FALSE)
  /\ UNCHANGED <<circuitBreaker, token, authEvents, serverVer, req, ticks, streak,
                 staleKeys>>

\* The entries expire: defaultTTL and a millisecond pass.
EntriesExpire ==
  /\ ticks < MaxTicks
  /\ ticks' = ticks + 1
  /\ cache' = AgedCache(AgedCache(cache, defaultTTL), 1)
  /\ circuitBreaker' = AgedBreaker(circuitBreaker, defaultTTL)
  /\ UNCHANGED <<metrics, token, authEvents, serverVer, req, last, calls, streak,
                 staleKeys>>

EvictionInit ==
  /\ circuitBreaker = [state |-> "closed", failures |-> 0, sinceFailure |-> resetTimeout]
  /\ \E n \in FillSizes :
       /\ cache = Filled(n)
       /\ metrics = [requests |-> n, failures |-> 0, cacheHits |-> 0, cacheMisses |-> n]
  /\ token = "tok"
  /\ authEvents = 0
  /\ serverVer = 1
  /\ req = [p \in Callers |-> Idle]
  /\ last = Outcome("getAlerts", "ok", Len(cache), NoError, 1, FALSE)
  /\ calls = 0
  /\ ticks = 0
  /\ streak = 0
  /\ staleKeys = {}
  /\ RealtimeConstructed
  /\ CameraConstructed
  /\ LadderUnused
  /\ DetectionConstructed
  /\ AlertsUnused
  /\ LegacyUnused

EvictionNext ==
  \/ \E i \in ReadLimits : ReadCached(i) /\ UNCHANGED outsideRequest
  \/ \E i \in ReadLimits : ReadFetched(i) /\ UNCHANGED outsideRequest
  \/ EntriesExpire /\ UNCHANGED outsideRequest

EvictionSpec == EvictionInit /\ [][EvictionNext]_vars

FetchesFor(p, op) == req[p].pc = "idle" /\ req'[p].pc = "fetch" /\ req'[p].op = op

\* C28: an entry enters the cache only when a read of its key returns its
\* payload, so a read that is called while a call of the same key is still
\* pending, and finds no unexpired entry, is counted as a miss and makes its
\* own fetch() (unless the open circuit rejects it).
C28_NoSingleFlight ==
  [][ /\ \A op \in ReadOps :
           (~HasKey(cache, KeyOf(op)) /\ HasKey(cache', KeyOf(op)))
             => \E p \in Callers : Returns(p) /\ KeyOf(req[p].op) = KeyOf(op)
      /\ \A op \in ReadOps :
           ( /\ StartedOp(op)
             /\ \E q \in Callers : req[q].pc # "idle" /\ req[q].op = op
             /\ ~Fresh(op)
             /\ ~InOpenWindow )
           => /\ \E p \in Callers : FetchesFor(p, op)
              /\ metrics'.cacheMisses = metrics.cacheMisses + 1
              /\ metrics'.cacheHits = metrics.cacheHits ]_vars

\* Two calls of the same read are waiting for their own fetch().
C28_Witness ==
  \E p, q \in Callers :
    /\ p # q
    /\ req[p].op \in ReadOps
    /\ req[q].op = req[p].op
    /\ req[p].pc = "fetch"
    /\ req[q].pc = "fetch"
    /\ ~HasKey(cache, KeyOf(req[p].op))

\* ---------------------------------------- further claims on the camera service
\* C29: no stream opened by a capability probe has a live track once the
\* probe has returned, whether the probe succeeded or failed.  (A probe's
\* stream is opened and the probe returns within one step, so that every
\* state lies after the return of every probe that has opened a stream.)
C29_ProbeLeavesNoStreamOpen == probeStreams = {}

\* C30: a discovery pass replaces the device table in one step.  Until
\* dispose() every device is in the table before a pass and after it, so
\* that a connectToCamera call made before dispose(), a pass being suspended
\* or not, finds its device in the table and is not answered 'not found'.
C30_TableReplacedAtomically ==
  [][\A d \in Devices :
       (MethodCalled("connectToCamera", d) /\ ~disposed)
         => connectedCameras[d] # "absent"]_vars

\* The changes of a device's connection status that the life cycle of a
\* connection consists of:
StatusEdges ==
  {<<"disconnected", "connecting">>, <<"connecting", "connected">>,
   <<"connected", "disconnected">>, <<"connecting", "failed">>,
   <<"failed", "connecting">>}

\* C31: the connection status of a device changes only along the edges
\* disconnected -> connecting -> connected -> disconnected, connecting ->
\* failed and failed -> connecting.  (A step that enters or leaves the state
\* in which the device has no status at all, as dispose() does, is not
\* judged.)
C31_StatusFollowsEdges ==
  [][\A d \in Devices :
       (/\ connectionStatus'[d] # connectionStatus[d]
        /\ connectionStatus[d] # "unset"
        /\ connectionStatus'[d] # "unset")
         => <<connectionStatus[d], connectionStatus'[d]>> \in StatusEdges]_vars

\* --------------------------------------------- further claims on the sampler
\* A step in which the timer's callback runs while detection is active
Ticks == detectionInterval = "due" /\ detectionInterval' = "armed"

\* C32: a tick that runs a cycle raises the frame count by exactly 1, a tick
\* that is skipped because the mid-flight flag is set leaves it alone, and
\* nothing else changes it but a stop, which resets it to 0; the frame count
\* is 0 whenever detection is inactive, so that while detection stays active
\* it is the number of cycles run since the start.
C32_FrameCountCountsCycles ==
  /\ [](~isActive => frameCount = 0)
  /\ [][/\ (Ticks /\ ~isProcessing) => frameCount' = frameCount + 1
        /\ (Ticks /\ isProcessing) => frameCount' = frameCount
        /\ ~Ticks => \/ frameCount' = frameCount
                     \/ frameCount' = 0 /\ isActive /\ ~isActive']_vars

\* Started once and never stopped: the first tick ran a cycle, which has been
\* waiting for createAlert for a period or more, and the tick that followed
\* was skipped.
C32_Witness ==
  /\ detCalls = 1
  /\ isActive
  /\ isProcessing
  /\ frameCount = 1
  /\ detectionInterval = "armed"
  /\ \E c \in Cycles : cycles[c].pc = "creatingAlert" /\ cycles[c].sinceNow >= framePeriod

\* A step in which a tick runs a cycle whose capture yields no frame: the
\* cycle is counted and is over within the step.
CaptureFails == Ticks /\ ~isProcessing /\ cycles' = cycles

\* A step in which the cycle c ends at the return of analyzeFrame, as it does
\* when the inference collaborator has thrown (analyzeFrame returns null).
AnalysisEnds(c) == cycles[c].pc = "analyzing" /\ cycles'[c].pc = "idle"

\* C33: a cycle that ends because the capture or the inference failed leaves
\* the mid-flight flag cleared, detection as active as it was and the timer
\* as it was set, so that the tick that follows runs a new cycle.
C33_CycleFailureKeepsDetecting ==
  [][/\ CaptureFails
          => ~isProcessing' /\ isActive' /\ detectionInterval' = "armed"
     /\ \A c \in Cycles :
          AnalysisEnds(c)
            => /\ ~isProcessing'
               /\ isActive' = isActive
               /\ detectionInterval' = detectionInterval
               /\ frameCount' = frameCount]_vars

\* Started once and never stopped, nothing stored: the first cycle ended
\* without an alert, as it does when its capture or its inference failed,
\* and the tick that followed has started the second cycle.
C33_Witness ==
  /\ detCalls = 1
  /\ isActive
  /\ isProcessing
  /\ frameCount = 2
  /\ \A k \in AlertKeys : persisted[k] = 0 /\ alertCooldowns[k] = cooldownPeriod
  /\ \E c \in Cycles : /\ cycles[c].pc = "analyzing"
                       /\ \A o \in Cycles \ {c} : cycles[o].pc = "idle"

\* ================================================================
\* The useRealTimeAlerts hook (part_002).  Its rows come from the REST
\* backend, through ApiService.getAlerts() and the events of
\* WebSocketService; the backend is not part of this code, and the rows it
\* sends are taken to be either unacknowledged or acknowledged with the
\* acknowledger and the time set.  isLoading and error, which no branch
\* reads, are left out.
\* ================================================================
\* The rows the backend can send for alert a
ServerRows(a) ==
  {[id |-> a, acknowledged |-> FALSE, acknowledged_by |-> "null",
    acknowledged_at |-> "null"],
   [id |-> a, acknowledged |-> TRUE, acknowledged_by |-> username,
    acknowledged_at |-> "set"]}

\* The responses of ApiService.getAlerts(): the alerts are listed once each
ServerLists ==
  {<<>>} \cup {<<r>> : r \in UNION {ServerRows(a) : a \in AlertIds}} \cup
  {<<r, q>> : r \in ServerRows(NumAlerts), q \in ServerRows(1)}

\* loadAlerts (lines 11-24), from the moment ApiService.getAlerts() resolves:
\* setAlerts(response || []).  Before its await it changes isLoading and
\* error only.
LegacyLoadResolves(response) ==
  /\ legacyAlerts' = response
  /\ UNCHANGED legacyAcknowledging

\* handleNewAlert (lines 28-39) for a 'new_alert' event
LegacyNewAlert(row) ==
  /\ Len(legacyAlerts) < MaxListed
  /\ legacyAlerts' = <<row>> \o legacyAlerts
  /\ UNCHANGED legacyAcknowledging

\* handleAlertUpdate (lines 41-47) for an 'alert_updated' event
LegacyAlertUpdate(row) ==
  /\ legacyAlerts' = UpdatedIn(legacyAlerts, row)
  /\ UNCHANGED legacyAcknowledging

\* handleAlertDelete (lines 49-51) for an 'alert_deleted' event
LegacyAlertDelete(a) ==
  /\ legacyAlerts' = SelectSeq(legacyAlerts, LAMBDA row : row.id # a)
  /\ UNCHANGED legacyAcknowledging

\* acknowledgeAlert(alertId) is called (lines 72-74): up to the await of
\* ApiService.acknowledgeAlert
LegacyAcknowledgeAlert(a) ==
  /\ legacyAcknowledging = 0
  /\ legacyAcknowledging' = a
  /\ UNCHANGED legacyAlerts

\* { ...alert, acknowledged: true, acknowledged_at: ... } (lines 75-81):
\* the row keeps the acknowledged_by it had
LegacyAcknowledgedIn(list, id) ==
  [i \in 1..Len(list) |->
     IF list[i].id = id
       THEN [list[i] EXCEPT !.acknowledged = TRUE, !.acknowledged_at = "set"]
       ELSE list[i]]

\* ApiService.acknowledgeAlert resolves: the local rows are changed (lines 75-81)
LegacyAcknowledgeResolves ==
  /\ legacyAcknowledging # 0
  /\ legacyAlerts' = LegacyAcknowledgedIn(legacyAlerts, legacyAcknowledging)
  /\ legacyAcknowledging' = 0

\* ApiService.acknowledgeAlert rejects: logged and rethrown (lines 82-85)
LegacyAcknowledgeRejects ==
  /\ legacyAcknowledging # 0
  /\ legacyAcknowledging' = 0
  /\ UNCHANGED legacyAlerts

LegacyInit ==
  /\ AfterCalls(0, FALSE)
  /\ RealtimeConstructed
  /\ CameraConstructed
  /\ LadderUnused
  /\ DetectionConstructed
  /\ AlertsUnused
  /\ LegacyUnused

LegacyNext ==
  \/ \E response \in ServerLists : LegacyLoadResolves(response) /\ UNCHANGED outsideLegacy
  \/ \E a \in AlertIds : \E row \in ServerRows(a) :
       LegacyNewAlert(row) /\ UNCHANGED outsideLegacy
  \/ \E a \in AlertIds : \E row \in ServerRows(a) :
       LegacyAlertUpdate(row) /\ UNCHANGED outsideLegacy
  \/ \E a \in AlertIds : LegacyAlertDelete(a) /\ UNCHANGED outsideLegacy
  \/ \E a \in AlertIds : LegacyAcknowledgeAlert(a) /\ UNCHANGED outsideLegacy
  \/ LegacyAcknowledgeResolves /\ UNCHANGED outsideLegacy
  \/ LegacyAcknowledgeRejects /\ UNCHANGED outsideLegacy

LegacySpec == LegacyInit /\ [][LegacyNext]_vars

\* The acknowledgement of a row is whole: the flag is set exactly when the
\* acknowledger and the time are
AllOrNothing(row) ==
  row.acknowledged <=> (row.acknowledged_by # "null" /\ row.acknowledged_at # "null")

\* C34: every alert record, in the alerts table and in the list of every
\* view, has its acknowledged flag set if and only if its acknowledger and
\* its acknowledgement time are both set.
C34_AcknowledgementAllOrNothing ==
  /\ \A a \in AlertIds : store[a].present => AllOrNothing(store[a])
  /\ \A v \in Views : \A i \in 1..Len(viewAlerts[v]) : AllOrNothing(viewAlerts[v][i])
  /\ \A i \in 1..Len(legacyAlerts) : AllOrNothing(legacyAlerts[i])

\* ------------------------------------------- further claims on the breaker
\* The changes of state of the circuit breaker
BreakerEdges ==
  {<<"closed", "open">>, <<"open", "half-open">>, <<"half-open", "closed">>,
   <<"half-open", "open">>}

\* C35: the breaker is closed only with fewer failures counted than the
\* threshold, and open or half-open only with the threshold reached and a
\* failure recorded (metrics.failures, which no statement lowers, is above 0
\* exactly when lastFailure has been written); its state changes only from
\* closed to open, open to half-open, half-open to closed and half-open to open.
C35_BreakerStateAgreesWithCount ==
  /\ [](/\ circuitBreaker.state = "closed"
             => circuitBreaker.failures < failureThreshold
        /\ circuitBreaker.state \in {"open", "half-open"}
             => circuitBreaker.failures >= failureThreshold /\ metrics.failures > 0)
  /\ [][circuitBreaker'.state # circuitBreaker.state
          => <<circuitBreaker.state, circuitBreaker'.state>> \in BreakerEdges]_vars

\* A call has been let through the open circuit and has not ended yet
C35_Witness ==
  /\ circuitBreaker.state = "half-open"
  /\ circuitBreaker.failures >= failureThreshold
  /\ \E p \in Callers : req[p] # Idle

\* A step in which a wrapper is called and its request() call ends at once,
\* served from the cache or rejected by the open circuit:
EndsAtOnce(op) == StartedOp(op) /\ req' = req

\* C36: a request() call that has made a fetch() and ends in an error throws
\* that error (the 401's after a 401, the parse error after a body that is
\* not JSON, never the circuit's) and raises circuitBreaker.failures and
\* metrics.failures by exactly 1; a call that is served from the cache or
\* rejected by the open circuit changes neither of them nor metrics.requests.
C36_FinalFailureCountedOnce ==
  [][ /\ \A p \in Callers :
           Fails(p)
             => /\ last'.error \notin {NoError, CircuitOpenError}
                /\ authEvents' # authEvents => last'.error = AuthError
                /\ req[p].pc = "json" => last'.error = JsonError
                /\ last'.fetches = req[p].attempt + 1
                /\ circuitBreaker'.failures = circuitBreaker.failures + 1
                /\ metrics'.failures = metrics.failures + 1
      /\ \A op \in Ops :
           EndsAtOnce(op)
             => /\ last'.res = "hit" \/ last'.error = CircuitOpenError
                /\ circuitBreaker'.failures = circuitBreaker.failures
                /\ metrics'.failures = metrics.failures
                /\ metrics'.requests = metrics.requests ]_vars

\* The first failure of the service: a call answered with 404 has been
\* counted once by the breaker and by the metrics
C36_Witness ==
  /\ last.res = "error"
  /\ last.error = HttpError(404)
  /\ last.fetches = 1
  /\ circuitBreaker.failures = 1
  /\ metrics.failures = 1

\* ---------------------------------------- further claims on the connections
\* No connectToCamera call for d is waiting for its stream (disconnectCamera
\* has no await and is never mid-flight between two steps):
Settled(d) == \A c \in Connectors : connecting[c].pc = "idle" \/ connecting[c].device # d

\* C37: a device for which no connect is mid-flight has the status
\* 'connected' and a descriptor that is 'online' exactly when the connection
\* map holds a connection for it, discovery passes or not.  (The claim is
\* about connects, disconnects, ended tracks and discovery passes: states
\* that follow a dispose() are not judged.)
C37_StatusAgreesWithConnectionMap ==
  \A d \in Devices :
     (~disposed /\ Settled(d)) =>
       ((connectionStatus[d] = "connected" /\ connectedCameras[d] = "online")
          <=> StreamsHas(activeStreams, d))

\* dispose() has been called, no method has been called since, and nothing
\* is mid-flight: no connectToCamera call waits for its stream and no
\* discovery pass is under way.
DisposedAndQuiet ==
  /\ disposed
  /\ camCall.op = "dispose"
  /\ \A c \in Connectors : connecting[c].pc = "idle"
  /\ \A k \in Discoverers : discovering[k].pc = "idle"

\* C38: once dispose() has run and every operation that was mid-flight has
\* completed, the connection map is empty and no stream that the service
\* opened has a live track.  (A stream whose track.stop() threw during the
\* teardown is not judged.)
C38_DisposeLeavesNothingOpen ==
  (DisposedAndQuiet /\ teardownThrew = {})
    => /\ activeStreams = <<>>
       /\ \A d \in Devices : OpenStreams(streams, d) = {}
       /\ probeStreams = {}

\* ------------------------------------------- further claims on the channel
\* Sockets that are open or connecting
OpenOrConnecting ==
  (IF websocket \in {"connecting", "open"} THEN 1 ELSE 0)
    + detached.connecting + detached.open

\* logout() has run and no socket has been created since
LoggedOut == token = "none" /\ websocket = "none"

\* C39: once logout() has closed the channel, and until the application
\* connects again, no step arms a reconnect timer and no step creates a
\* socket; and at every moment at most one socket is open or connecting.
C39_NoReconnectAfterLogout ==
  /\ [](OpenOrConnecting <= 1)
  /\ [][(LoggedOut /\ wsCalls' = wsCalls)
          => ArmedDelays = {} /\ websocket' = "none"]_vars

\* ------------------------------------------ further claim on stopDetection
\* C40: while detection is inactive, as it is from the return of
\* stopDetection() to the next start, no alert is stored and no cooldown
\* entry is stamped (the time since an entry's stamp never goes down).
C40_NothingStoredAfterStop ==
  [][(~isActive /\ ~isActive')
       => \A k \in AlertKeys :
             /\ persisted'[k] = persisted[k]
             /\ alertCooldowns'[k] >= alertCooldowns[k]]_vars
====
